---- MODULE Spec2Model ----
(***************************************************************************)
(* A model of the fetch / paginate / retry / cache engine of the F1        *)
(* history viewer (src/src/pages/*.tsx and the Pitstops page).             *)
(*                                                                         *)
(* The module holds several specifications over one set of variables:      *)
(*   SpecFetch   one call of a resilient fetcher against an upstream that  *)
(*               answers each request with any response;                   *)
(*   SpecPage    one run of a paginated fetch over an upstream collection  *)
(*               of T entries served in pages;                             *)
(*   SpecSeason  the SeasonResults view: year selections, unmount and      *)
(*               remount, the load() runs they start and the background    *)
(*               reconciliation loops, over a shared sessionStorage;       *)
(*   SpecSeasonSerial  the same view when a year is selected, or the view  *)
(*               remounted, only once the runs started before are over;    *)
(*   SpecCache   calls of fetchConstructorMetrics and fetchActiveDriverIds *)
(*               over sessionStorage while the calendar advances;          *)
(*   SpecLoop    one load() run with its reconciliation loop, under        *)
(*               fairness;                                                 *)
(*   SpecRead    one cached read of each loader over a stored string of    *)
(*               any content, followed by the fresh fetch on a miss;       *)
(*   SpecPit     the Pitstops view: range changes, unmount and the scans   *)
(*               they start and cancel;                                    *)
(*   SpecCareer  the fold of fetchDriverCareerStats over any result and    *)
(*               qualifying races;                                         *)
(*   SpecStops   the per-stop fold of loadPitstopStats over any pit stops  *)
(*               in scan order.                                            *)
(* Each specification moves only its own variables and leaves the others   *)
(* at their idle values.                                                   *)
(***************************************************************************)
EXTENDS Integers, Sequences, FiniteSets, TLC

VARIABLES
    fx,          \* the resilient-fetcher call in progress (SpecFetch)
    pg,          \* the paginated fetch in progress (SpecPage)
    view,        \* SeasonResults component state (useState hooks)
    mounted,     \* whether a SeasonResults component is mounted
    loads,       \* the load() runs started so far, in start order
    seasonCache, \* sessionStorage: seasonResults_<year> entries
    published,   \* upstream: which rounds of the running season have results
    lateOps,     \* what superseded loads have done since being superseded
    today,       \* the calendar day, counted from the start (SpecCache)
    upstreamRev, \* upstream: the revision of the data it serves
    storage,     \* sessionStorage: constructor and active-driver entries
    call,        \* the fetchConstructorMetrics / fetchActiveDriverIds call
                 \* in progress
    lastRead,    \* how the last finished call got its value
    rd,          \* the cached read in progress (SpecRead)
    scans,       \* Pitstops: the loadPitstopStats runs started, in start order
    pitView,     \* Pitstops component state (useState hooks)
    pitMounted,  \* whether the Pitstops component is mounted
    pitStore,    \* sessionStorage: pitstops_<season>_<round> and driver names
    pitLate,     \* what cancelled scans have done since being cancelled
    career,      \* the fetchDriverCareerStats fold in progress (SpecCareer)
    fold,        \* the pit-stop fold in progress (SpecStops)
    panel        \* the statistics panel of a page (SpecStats)

vars == <<fx, pg, view, mounted, loads, seasonCache, published, lateOps,
          today, upstreamRev, storage, call, lastRead, rd,
          scans, pitView, pitMounted, pitStore, pitLate, career, fold, panel>>
seasonVars == <<view, mounted, loads, seasonCache, published, lateOps>>
cacheVars == <<today, upstreamRev, storage, call, lastRead>>
pitVars == <<scans, pitView, pitMounted, pitStore, pitLate>>
foldVars == <<career, fold>>
extraVars == <<rd, pitVars, foldVars, panel>>
exceptRead == <<fx, pg, seasonVars, cacheVars, pitVars, foldVars, panel>>
exceptPit == <<fx, pg, seasonVars, cacheVars, rd, foldVars, panel>>
exceptCareer == <<fx, pg, seasonVars, cacheVars, rd, pitVars, fold, panel>>
exceptStats == <<fx, pg, seasonVars, cacheVars, rd, pitVars, foldVars>>
exceptStops == <<fx, pg, seasonVars, cacheVars, rd, pitVars, career, panel>>

(***************************************************************************)
(* Upstream responses.  A response is an HTTP status together with whether *)
(* its JSON body carries a throttling marker (a `detail` or `message`      *)
(* string containing "throttled"); NetworkFailure is fetch() rejecting.    *)
(***************************************************************************)
NetworkFailure == [status |-> 0, marker |-> FALSE]

Responses ==
    { [status |-> 200, marker |-> FALSE], [status |-> 200, marker |-> TRUE],
      [status |-> 404, marker |-> FALSE], [status |-> 404, marker |-> TRUE],
      [status |-> 429, marker |-> FALSE], [status |-> 503, marker |-> FALSE],
      NetworkFailure }

\* Response.ok
ok(res) == res.status >= 200 /\ res.status <= 299

(***************************************************************************)
(* Resilient fetchers.  Each operator below is ONE iteration of the        *)
(* fetcher's loop, for the value `attempt` of its loop counter and the     *)
(* response `res` its fetch() gets.  The result says how the iteration     *)
(* ends: "continue" (the loop goes on with `attempt`), "return" (the       *)
(* promise resolves with `value`) or "throw" (it rejects with `error`),    *)
(* and which sleeps the iteration performed, in order.                     *)
(***************************************************************************)
maxRetries == 6
baseDelay == 600
retries == 3
backoffMs == 800
MAX_RETRIES == 6
BASE_RETRY_DELAY_MS == 800
REQUEST_SPACING_MS == 700

Continue(a, w) == [kind |-> "continue", attempt |-> a, sleeps |-> w, error |-> "none", value |-> "none"]
Return(v, w)   == [kind |-> "return", attempt |-> 0, sleeps |-> w, error |-> "none", value |-> v]
Throw(e, w)    == [kind |-> "throw", attempt |-> 0, sleeps |-> w, error |-> e, value |-> "none"]

\* res.json(): the parsed body; a body with a throttling marker is an error
\* envelope, not data.
json(res) == IF res.marker THEN "throttledBody" ELSE "data"

\* DriverStats.tsx, CompareDrivers.tsx, ConstructorStats.tsx:
\* fetchJsonWithBackoff(url, maxRetries = 6, baseDelay = 600)
fetchJsonWithBackoff(attempt, res) ==
    IF res = NetworkFailure THEN Throw("NetworkError", <<>>)
    ELSE IF res.status = 429
         THEN IF attempt + 1 < maxRetries
              THEN Continue(attempt + 1, <<baseDelay * (attempt + 1)>>)
              ELSE Throw("RateLimited", <<baseDelay * (attempt + 1)>>)
    ELSE IF ~ok(res) THEN Throw("RequestFailed", <<>>)
    ELSE Return(json(res), <<>>)

\* fetchJsonWithRetry giving up one attempt early (the loop bound written
\* `attempt < retries`): the slip the request count of C4 rules out.
fetchJsonWithRetryShort(attempt, res) ==
    LET last == attempt + 1 >= retries
        again == Continue(attempt + 1, <<backoffMs * (attempt + 1)>>)
    IN  IF res = NetworkFailure
        THEN IF last THEN Throw("NetworkError", <<>>) ELSE again
        ELSE IF res.status = 429 \/ res.marker \/ res.status >= 500
             THEN IF last THEN Throw("RateLimited", <<>>) ELSE again
        ELSE IF ok(res) THEN Return(json(res), <<>>)
        ELSE IF last THEN Throw("RequestFailed", <<>>) ELSE again

\* The catch block of fetchJsonWithRetry: rethrow on the last attempt,
\* otherwise fall through to the sleep that ends the iteration.
RetryCatch(attempt, e) ==
    IF attempt = retries THEN Throw(e, <<>>)
    ELSE Continue(attempt + 1, <<backoffMs * (attempt + 1)>>)

\* SeasonResults: fetchJsonWithRetry(url, retries = 3, backoffMs = 800)
fetchJsonWithRetry(attempt, res) ==
    IF res = NetworkFailure THEN RetryCatch(attempt, "NetworkError")
    ELSE LET throttled == res.status = 429 \/ res.marker
             shouldRetry == throttled \/ res.status >= 500
         IN  IF ~shouldRetry
             THEN IF ok(res) THEN Return(json(res), <<>>)
                  ELSE RetryCatch(attempt, "RequestFailed")
             ELSE IF attempt = retries THEN RetryCatch(attempt, "RateLimited")
                  ELSE Continue(attempt + 1, <<backoffMs * (attempt + 1)>>)

\* The catch block of the Pitstops fetchJsonWithBackoff.
PitCatch(attempt, e) ==
    IF attempt = MAX_RETRIES THEN Throw(e, <<>>)
    ELSE Continue(attempt + 1, <<BASE_RETRY_DELAY_MS * (attempt + 1)>>)

\* Pitstops: fetchJsonWithBackoff(url, retries = MAX_RETRIES,
\* baseDelay = BASE_RETRY_DELAY_MS)
fetchJsonWithBackoffPit(attempt, res) ==
    IF res = NetworkFailure THEN PitCatch(attempt, "NetworkError")
    ELSE IF res.status = 429 \/ res.status >= 500
         THEN IF attempt = MAX_RETRIES THEN PitCatch(attempt, "RateLimited")
              ELSE Continue(attempt + 1, <<BASE_RETRY_DELAY_MS * (attempt + 1)>>)
    ELSE IF ~ok(res) THEN PitCatch(attempt, "RequestFailed")
    ELSE Return(json(res), <<REQUEST_SPACING_MS>>)

\* The five copies of the resilient fetcher, by page.
BackoffFetchers == {"DriverStats", "CompareDrivers", "ConstructorStats"}
Fetchers == BackoffFetchers \cup {"SeasonResults", "Pitstops"}

FetchIteration(fn, attempt, res) ==
    IF fn \in BackoffFetchers THEN fetchJsonWithBackoff(attempt, res)
    ELSE IF fn = "SeasonResults" THEN fetchJsonWithRetry(attempt, res)
    ELSE fetchJsonWithBackoffPit(attempt, res)

(***************************************************************************)
(* SpecFetch: one call of one fetcher.  fx.responses is the sequence of    *)
(* responses to the requests issued so far (one request per iteration),    *)
(* fx.sleeps the sleeps performed so far.                                  *)
(***************************************************************************)
\* The values the variables of the other specifications keep.
\* setSeasonRaces([])
NoRaces == [year |-> 0, Results |-> <<>>]

\* The component state before any load
ViewIdle == [instance |-> 0, year |-> 0, loading |-> FALSE, error |-> "",
             standings |-> 0, seasonRaces |-> NoRaces, racesFetchedCount |-> 0,
             racesTotal |-> 0, missingRounds |-> {}]

SeasonIdle ==
    /\ view = ViewIdle
    /\ mounted = FALSE
    /\ loads = <<>>
    /\ seasonCache = <<>>
    /\ published = <<>>
    /\ lateOps = {}

NoCall == [fn |-> "none", id |-> "", currentYear |-> 0, season |-> 0]
NoRead == [fn |-> "none", key |-> "", hit |-> FALSE, data |-> 0,
           writtenOn |-> 0, readOn |-> 0]

CacheIdle ==
    /\ today = 0
    /\ upstreamRev = 0
    /\ storage = <<>>
    /\ call = NoCall
    /\ lastRead = NoRead

\* sessionStorage.getItem(key) === null
Absent == [kind |-> "absent", type |-> "none", tagged |-> FALSE, expected |-> FALSE]

ReadIdle == [reader |-> "none", pc |-> "idle", stored |-> Absent, hit |-> FALSE,
             value |-> "none", glimpse |-> FALSE]

\* The Pitstops component state before any scan
PitViewIdle == [from |-> 0, to |-> 0, loading |-> FALSE, error |-> "",
                progress |-> 0, shown |-> FALSE, totalStops |-> 0,
                totalRaces |-> 0, names |-> FALSE]

PitIdle ==
    /\ scans = <<>>
    /\ pitView = PitViewIdle
    /\ pitMounted = FALSE
    /\ pitStore = [names |-> FALSE, stops |-> {}]
    /\ pitLate = {}

\* No fold in progress
CareerIdle == [pc |-> "idle"]
StopsIdle == [pc |-> "idle"]

\* No entity is selected; useState(null) of the statistics
NoSelection == "<none>"
NoStats == "<null>"

\* A page's statistics panel before anything is selected
PanelIdle ==
    [page |-> "none", mounted |-> FALSE, selected |-> NoSelection,
     stats |-> NoStats, last |-> NoStats, error |-> FALSE, loading |-> FALSE,
     runs |-> <<>>, late |-> {}]

FoldIdle ==
    /\ career = CareerIdle
    /\ fold = StopsIdle

ExtraIdle ==
    /\ rd = ReadIdle
    /\ PitIdle
    /\ FoldIdle
    /\ panel = PanelIdle

FetchIdle == [fn |-> "none", pc |-> "idle", attempt |-> 0, responses |-> <<>>,
              sleeps |-> <<>>, error |-> "none", value |-> "none"]

\* A paginated fetch has returned no list
NoList == [given |-> FALSE, list |-> <<>>]

PageIdle == [fn |-> "none", pc |-> "idle", T |-> 0, offset |-> 0, total |-> 0,
             attempt |-> 0, requests |-> <<>>, all |-> <<>>, clean |-> TRUE,
             throttled |-> 0, error |-> "none", phase |-> "only",
             stored |-> FALSE, value |-> NoList]

InitFetch ==
    /\ \E fn \in Fetchers :
         fx = [FetchIdle EXCEPT !.fn = fn, !.pc = "running"]
    /\ pg = PageIdle
    /\ SeasonIdle
    /\ CacheIdle
    /\ ExtraIdle

\* One iteration of the loop: the request goes out, `res` comes back.
Request ==
    /\ fx.pc = "running"
    /\ \E res \in Responses :
        LET r == FetchIteration(fx.fn, fx.attempt, res)
        IN  fx' = [fx EXCEPT
                     !.responses = Append(@, res),
                     !.sleeps = @ \o r.sleeps,
                     !.attempt = IF r.kind = "continue" THEN r.attempt ELSE @,
                     !.pc = CASE r.kind = "continue" -> "running"
                              [] r.kind = "return" -> "returned"
                              [] r.kind = "throw" -> "thrown",
                     !.error = r.error,
                     !.value = r.value]
    /\ UNCHANGED <<pg, seasonVars, cacheVars, extraVars>>

NextFetch == Request

SpecFetch == InitFetch /\ [][NextFetch]_vars

(***************************************************************************)
(* Paginators.  The upstream collection has T entries, numbered 1..T in    *)
(* upstream order; a page request at `offset` with page size `limit`       *)
(* returns the entries offset+1 .. min(offset+limit, T) and reports        *)
(* total = T.                                                              *)
(***************************************************************************)
limit == 100
Infinity == -1      \* `let total = Infinity`: larger than every offset
MaxTotal == 201     \* largest upstream total explored
MaxThrottles == 8   \* 429 responses the upstream gives a circuit paginator

Min(a, b) == IF a < b THEN a ELSE b

Totals == { t \in 0..MaxTotal : t % limit \in {0, 1, limit - 1} }

\* mr?.RaceTable?.Races ?? [] of the page upstream serves at `offset`
Page(T, offset) ==
    IF offset >= T THEN <<>>
    ELSE [i \in 1..Min(limit, T - offset) |-> offset + i]

\* The loop condition with one request too many at an exact multiple.
morePagesInclusive(offset, total) ==
    offset = 0 \/ total = Infinity \/ offset <= total

\* while (offset === 0 || offset < total)
morePages(offset, total) ==
    offset = 0 \/ total = Infinity \/ offset < total

\* The body of a page response as the paginators read it:
\* total = parseInt(mr?.total ?? '0', 10) || 0 and the page's entries.  A
\* body that carries a throttling marker has no MRData.
PageBody(T, offset, res) ==
    IF res.marker THEN [total |-> 0, page |-> <<>>]
    ELSE [total |-> T, page |-> Page(T, offset)]

FetchPaginators == {"fetchPaginatedRaces", "fetchConstructorResultsPaginated"}
CircuitPaginators == {"fetchCircuitRaceStats", "fetchCircuitResults"}
Paginators == FetchPaginators \cup {"fetchDriversRateLimited"} \cup CircuitPaginators

\* fetchDriversRateLimited: the inline retry loop around one page request
\* (while (attempt < 6 && !success)) and the `if (!success) throw` after it.
driversPageIteration(attempt, res) ==
    IF res = NetworkFailure THEN Throw("NetworkError", <<>>)
    ELSE IF res.status = 429
         THEN IF attempt + 1 < 6
              THEN Continue(attempt + 1, <<600 * (attempt + 1)>>)
              ELSE Throw("RateLimited", <<600 * (attempt + 1)>>)
    ELSE IF ~ok(res) THEN Throw("RequestFailed", <<>>)
    ELSE Return(json(res), <<>>)

\* fetchCircuitRaceStats, fetchCircuitResults: on 429, sleep(600) and
\* `continue` the page loop at the same offset; no attempt counter.
circuitPageIteration(attempt, res) ==
    IF res = NetworkFailure THEN Throw("NetworkError", <<>>)
    ELSE IF res.status = 429 THEN Continue(attempt, <<600>>)
    ELSE IF ~ok(res) THEN Throw("RequestFailed", <<>>)
    ELSE Return(json(res), <<>>)

PageIteration(fn, attempt, res) ==
    IF fn \in FetchPaginators THEN fetchJsonWithBackoff(attempt, res)
    ELSE IF fn = "fetchDriversRateLimited" THEN driversPageIteration(attempt, res)
    ELSE circuitPageIteration(attempt, res)

\* The phases of a run: fetchDriverCareerStats calls fetchPaginatedRaces for
\* the results, then for the qualifying results
Phases(fn) ==
    IF fn = "fetchPaginatedRaces" THEN {"results", "qualifying"} ELSE {"only"}

\* The cache entry written after every page.
cacheAfterPagesAlways(fn, phase, over) == TRUE

\* sessionStorage.setItem after the page loop: by the paginator itself, or by
\* the statistics fetch that called it once its last pagination is over
cacheAfterPages(fn, phase, over) == over /\ phase \in {"only", "qualifying"}

(***************************************************************************)
(* SpecPage: one run of one paginator.  pg.requests is the sequence of     *)
(* offsets requested so far, pg.all the entries accumulated (`races`,      *)
(* `all`), pg.clean whether every response so far was a plain 200,         *)
(* pg.throttled the number of 429 responses so far, pg.value the list      *)
(* returned and pg.stored whether the cache entry of the fetch has been    *)
(* written.                                                                *)
(***************************************************************************)
InitPage ==
    /\ \E fn \in Paginators, T \in Totals :
         \E phase \in Phases(fn) :
           pg = [PageIdle EXCEPT !.fn = fn, !.pc = "running", !.T = T,
                                 !.total = Infinity, !.phase = phase]
    /\ fx = FetchIdle
    /\ SeasonIdle
    /\ CacheIdle
    /\ ExtraIdle

\* One request of the page loop at pg.offset and what follows it up to the
\* next request: a retry of the same offset, the next page, the return or
\* the failure.
PageRequest ==
    /\ pg.pc = "running"
    /\ \E res \in Responses :
        /\ (pg.fn \in CircuitPaginators /\ res.status = 429)
               => pg.throttled < MaxThrottles
        /\ LET r == PageIteration(pg.fn, pg.attempt, res)
               body == PageBody(pg.T, pg.offset, res)
               sent == [pg EXCEPT
                          !.requests = Append(@, pg.offset),
                          !.clean = @ /\ res = [status |-> 200, marker |-> FALSE],
                          !.throttled = @ + (IF res.status = 429 THEN 1 ELSE 0)]
           IN  pg' =
                 CASE r.kind = "continue" ->
                        [sent EXCEPT !.attempt = r.attempt]
                   [] r.kind = "throw" ->
                        [sent EXCEPT !.pc = "thrown", !.error = r.error]
                   [] r.kind = "return" ->
                        LET over == ~morePages(pg.offset + limit, body.total)
                        IN  [sent EXCEPT
                               !.total = body.total,
                               !.all = @ \o body.page,
                               !.offset = @ + limit,
                               !.attempt = 0,
                               !.pc = IF over THEN "returned" ELSE "running",
                               !.value = IF over
                                         THEN [given |-> TRUE,
                                               list |-> pg.all \o body.page]
                                         ELSE @,
                               !.stored = @ \/ cacheAfterPages(pg.fn, pg.phase, over)]
    /\ UNCHANGED <<fx, seasonVars, cacheVars, extraVars>>

NextPage == PageRequest

SpecPage == InitPage /\ [][NextPage]_vars

(***************************************************************************)
(* SeasonResults: upstream.                                                *)
(*                                                                         *)
(* Two seasons can be selected: a finished one, whose rounds all have      *)
(* results, and the running one, whose rounds get their results published  *)
(* one by one while the program runs.  A result list is modelled by its    *)
(* length: the code tests lists for emptiness and concatenates them.       *)
(***************************************************************************)
NumRounds == 2              \* rounds of the running season
ResultsPerRound == 120      \* results upstream holds for a published round
UpstreamDefaultLimit == 30  \* page size upstream applies when none is asked
UpstreamMaxLimit == 100     \* largest page size upstream serves
MaxLoads == 2               \* load() runs started in one behaviour
MaxSweeps == 1              \* sweeps a reconciliation loop repeats

FinishedYear == 2024
RunningYear == 2025
Years == {FinishedYear, RunningYear}

Max(a, b) == IF a > b THEN a ELSE b

\* The rounds listed by /<year>/races/
RoundsIn(y) == IF y = RunningYear THEN NumRounds ELSE NumRounds - 1

\* How many results upstream holds for round r of year y
UpstreamCount(y, r, pub) ==
    IF y = RunningYear /\ ~pub[r] THEN 0 ELSE ResultsPerRound

\* Rows of /<year>/results/ that precede round r
RECURSIVE RowsBefore(_, _, _)
RowsBefore(y, r, pub) ==
    IF r <= 1 THEN 0
    ELSE RowsBefore(y, r - 1, pub) + UpstreamCount(y, r - 1, pub)

\* MRData.total of /<year>/results/
TotalRows(y, pub) == RowsBefore(y, RoundsIn(y) + 1, pub)

\* Results of round r on the page of size `lim` at `offset` of
\* /<year>/results/
PageRows(y, r, offset, lim, pub) ==
    LET a == RowsBefore(y, r, pub)
        b == a + UpstreamCount(y, r, pub)
    IN  Max(0, Min(b, offset + lim) - Max(a, offset))

\* Results served for /<year>/<round>/results.json?limit=<lim>&offset=<off>
RoundRows(y, r, off, lim, pub) ==
    Max(0, Min(UpstreamCount(y, r, pub), off + lim) - off)

\* The season cache entry read by sessionStorage.getItem
NoEntry == [present |-> FALSE, races |-> <<>>]
Entry(races) == [present |-> TRUE, races |-> races]

(***************************************************************************)
(* SeasonResults: component state and load() runs.                         *)
(***************************************************************************)
\* The state after the resets at the top of load()
ViewReset(inst, y) ==
    [instance |-> inst, year |-> y, loading |-> TRUE, error |-> "",
     standings |-> 0, seasonRaces |-> NoRaces, racesFetchedCount |-> 0,
     racesTotal |-> 0, missingRounds |-> {}]

\* A load() run: its closure variables and where it is suspended.
\*   pc          the await it is suspended at, or "done"
\*   sorted      sortedByRound.length
\*   map         raceResultsMap (result count per round)
\*   current     mergedRaces, then the loop's `current`
\*   missing     the rounds `missing` after the initial merge
\*   writes      how many times it has written the cache
\*   cachedAtStart  whether the cache held its year when it started
NewLoad(inst, y, cached) ==
    [year |-> y, inst |-> inst, pc |-> "standings", outcome |-> "",
     sorted |-> 0, offset |-> 0, totalResults |-> Infinity, map |-> <<>>,
     current |-> <<>>, idx |-> 0, attempt |-> 0, results |-> 0, total |-> 0,
     flimit |-> 0, off |-> 0, sweeps |-> 0, writes |-> 0,
     cachedAtStart |-> cached, missing |-> {}]

\* A finished run keeps only what later reads need.
Done(ld, outcome) ==
    [ld EXCEPT !.pc = "done", !.outcome = outcome, !.sorted = 0, !.offset = 0,
               !.totalResults = Infinity, !.map = <<>>, !.current = <<>>,
               !.idx = 0, !.attempt = 0, !.results = 0, !.total = 0,
               !.flimit = 0, !.off = 0, !.missing = {}]

\* Rounds of `races` without results
Missing(races) == { i \in 1..Len(races) : races[i] = 0 }

\* races.filter(r => r.Results.length > 0).length
FetchedCount(races) == Len(races) - Cardinality(Missing(races))

\* The component a run belongs to is still mounted (a state update of an
\* unmounted component has no effect).
Attached(ld) == mounted /\ ld.inst = view.instance

\* The run's effect has been cleaned up: its year is no longer selected or
\* its component is gone.
Superseded(l) == ~mounted \/ l < Len(loads)

Apply(ld, v, w) == IF Attached(ld) THEN w ELSE v

pageLimit == 100            \* const pageLimit = 100 (season results pages)
fallbackPageLimit == 200    \* const pageLimit = 200 (per-round fallback)
CallOutcomes == {"return", "throw"}  \* how a fetchJsonWithRetry call ends

\* What one step of a load() run does: the run's new state, the new
\* component state and cache, and the kinds of effect it had ("request": a
\* fetch was issued, "cache": sessionStorage was written, "view": a state
\* setter of a mounted component ran).
Step(ld, v, c, ops) == [ld |-> ld, view |-> v, cache |-> c, ops |-> ops]

ViewOps(ld) == IF Attached(ld) THEN {"view"} ELSE {}

\* catch (e) { setError(...) } finally { setLoading(false) }
Fail(ld, v, c) ==
    Step(Done(ld, "failed"),
         Apply(ld, v, [v EXCEPT !.error = "Failed to fetch season standings/results.",
                                !.loading = FALSE]),
         c, ViewOps(ld))

\* The cache is written by every sweep, complete or not.
cacheAfterSweepAlways(newMissing) == TRUE

\* if (newMissing.length === 0) { sessionStorage.setItem(...) }
cacheAfterSweep(newMissing) == newMissing = {}

\* The write of the else branch left out.
cacheAfterMergeNever(missing) == FALSE

\* if (missing.length > 0) { ... } else { sessionStorage.setItem(...) }
cacheAfterMerge(missing) == missing = {}

\* setSeasonRaces, setRacesFetchedCount, setMissingRounds
ShowRaces(ld, v, races) ==
    Apply(ld, v, [v EXCEPT !.seasonRaces = [year |-> ld.year, Results |-> races],
                           !.racesFetchedCount = FetchedCount(races),
                           !.missingRounds = Missing(races)])

\* The for loop finds nothing to request.
FirstMissingFromNone(races, from) == 0

\* The for loop without `if (has) continue`: every round is requested.
FirstMissingFromAll(races, from) == IF from <= Len(races) THEN from ELSE 0

\* The first round at or after `from` that has no results, 0 if none:
\* the for loop's `if (has) continue`.
FirstMissingFrom(races, from) ==
    LET S == { i \in Missing(races) : i >= from }
    IN  IF S = {} THEN 0 ELSE CHOOSE i \in S : \A j \in S : i <= j

\* The end of a sweep: publish `current`, write the cache and stop when
\* nothing is missing, otherwise sleep(5000).
EndSweep(ld, v, c) ==
    LET newMissing == Missing(ld.current)
        v1 == ShowRaces(ld, v, ld.current)
        write == cacheAfterSweep(newMissing)
        c1 == IF write THEN [c EXCEPT ![ld.year] = Entry(ld.current)] ELSE c
        ld1 == [ld EXCEPT !.writes = @ + (IF write THEN 1 ELSE 0)]
        ops == ViewOps(ld) \cup (IF write THEN {"cache"} ELSE {})
    IN  IF newMissing = {}
        THEN Step(Done(ld1, "complete"), v1, c1, ops)
        ELSE Step([ld1 EXCEPT !.pc = "sweepSleep", !.idx = 0, !.attempt = 0,
                              !.results = 0, !.total = 0, !.flimit = 0, !.off = 0],
                  v1, c1, ops)

\* The for loop from index `from`: request the next missing round, or end
\* the sweep.
ContinueSweep(ld, v, c, from) ==
    LET i == FirstMissingFrom(ld.current, from)
    IN  IF i # 0
        THEN Step([ld EXCEPT !.pc = "simple", !.idx = i, !.attempt = 0,
                             !.results = 0, !.total = 0, !.flimit = 0, !.off = 0],
                  v, c, {"request"})
        ELSE EndSweep(ld, v, c)

\* After the page loop: merge, publish, then start the loop or write the
\* cache; finally { setLoading(false) }.
AfterMerge(ld, v, c) ==
    LET merged == ld.current
        missing == Missing(merged)
        v1 == ShowRaces(ld, v, merged)
        v2 == Apply(ld, v1, [v1 EXCEPT !.loading = FALSE])
    IN  IF missing # {}
        THEN LET r == ContinueSweep([ld EXCEPT !.missing = missing], v1, c, 1)
             IN  Step(r.ld, Apply(ld, r.view, [r.view EXCEPT !.loading = FALSE]),
                      r.cache, r.ops \cup ViewOps(ld))
        ELSE LET write == cacheAfterMerge(missing)
             IN  Step(Done([ld EXCEPT !.writes = @ + (IF write THEN 1 ELSE 0)], "complete"),
                      v2,
                      IF write THEN [c EXCEPT ![ld.year] = Entry(merged)] ELSE c,
                      ViewOps(ld) \cup (IF write THEN {"cache"} ELSE {}))

\* The end of the paginated fallback for round ld.idx
FinishFallback(ld, v, c) ==
    ContinueSweep(
        IF ld.results > 0 THEN [ld EXCEPT !.current[ld.idx] = ld.results] ELSE ld,
        v, c, ld.idx + 1)

Commit(l, r) ==
    /\ loads' = [loads EXCEPT ![l] = r.ld]
    /\ view' = r.view
    /\ seasonCache' = r.cache
    /\ lateOps' = IF Superseded(l) THEN lateOps \cup r.ops ELSE lateOps
    /\ UNCHANGED <<mounted, published, fx, pg, cacheVars, extraVars>>

(***************************************************************************)
(* SpecSeason: actions.  Each load() action resolves the await the run is  *)
(* suspended at and runs it to its next await.                             *)
(***************************************************************************)
InitSeason ==
    /\ \E y \in Years :
        /\ view = ViewReset(1, y)
        /\ loads = <<NewLoad(1, y, FALSE)>>
    /\ mounted = TRUE
    /\ seasonCache = [y \in Years |-> NoEntry]
    /\ published \in [1..NumRounds -> BOOLEAN]
    /\ lateOps = {}
    /\ fx = FetchIdle
    /\ pg = PageIdle
    /\ CacheIdle
    /\ ExtraIdle

\* setYear(y): the effect runs load() for the new year.  The effect has no
\* cleanup, so the runs started before keep going.
SelectYear(y) ==
    /\ mounted
    /\ y # view.year
    /\ Len(loads) < MaxLoads
    /\ view' = ViewReset(view.instance, y)
    /\ loads' = Append(loads, NewLoad(view.instance, y, seasonCache[y].present))
    /\ UNCHANGED <<mounted, seasonCache, published, lateOps, fx, pg, cacheVars, extraVars>>

\* The user navigates away.
Unmount ==
    /\ mounted
    /\ mounted' = FALSE
    /\ UNCHANGED <<view, loads, seasonCache, published, lateOps, fx, pg, cacheVars, extraVars>>

\* The user comes back: a new component instance, in the same tab session.
Mount(y) ==
    /\ ~mounted
    /\ Len(loads) < MaxLoads
    /\ mounted' = TRUE
    /\ view' = ViewReset(view.instance + 1, y)
    /\ loads' = Append(loads, NewLoad(view.instance + 1, y, seasonCache[y].present))
    /\ UNCHANGED <<seasonCache, published, lateOps, fx, pg, cacheVars, extraVars>>

\* Upstream publishes the results of a round of the running season.
Publish(r) ==
    /\ ~published[r]
    /\ published' = [published EXCEPT ![r] = TRUE]
    /\ UNCHANGED <<view, mounted, loads, seasonCache, lateOps, fx, pg, cacheVars, extraVars>>

\* await Promise.all([driverstandings, constructorstandings])
StandingsDone(l) ==
    /\ loads[l].pc = "standings"
    /\ \E out \in CallOutcomes :
        LET ld == loads[l]
        IN  Commit(l,
              IF out = "throw" THEN Fail(ld, view, seasonCache)
              ELSE Step([ld EXCEPT !.pc = "races"],
                        Apply(ld, view, [view EXCEPT !.standings = ld.year]),
                        seasonCache, ViewOps(ld) \cup {"request"}))

\* await fetchJsonWithRetry(racesUrl), then the cache check
RacesDone(l) ==
    /\ loads[l].pc = "races"
    /\ \E out \in CallOutcomes :
        LET ld == loads[l]
            n == RoundsIn(ld.year)
            v1 == Apply(ld, view, [view EXCEPT !.racesTotal = n])
            cached == seasonCache[ld.year]
        IN  Commit(l,
              IF out = "throw" THEN Fail(ld, view, seasonCache)
              ELSE IF cached.present
              THEN Step(Done([ld EXCEPT !.sorted = n], "hit"),
                        LET v2 == ShowRaces(ld, v1, cached.races)
                        IN  Apply(ld, v2, [v2 EXCEPT !.loading = FALSE]),
                        seasonCache, ViewOps(ld))
              ELSE Step([ld EXCEPT !.pc = "page", !.sorted = n, !.offset = 0,
                                   !.totalResults = Infinity,
                                   !.map = [i \in 1..n |-> 0]],
                        v1, seasonCache, ViewOps(ld) \cup {"request"}))

\* await fetchJsonWithRetry(results page), in the page loop
PageDone(l) ==
    /\ loads[l].pc = "page"
    /\ \E out \in CallOutcomes :
        LET ld == loads[l]
            tot == TotalRows(ld.year, published)
            map1 == [i \in 1..ld.sorted |->
                        ld.map[i] + PageRows(ld.year, i, ld.offset, pageLimit, published)]
            off1 == ld.offset + pageLimit
        IN  Commit(l,
              IF out = "throw" THEN Fail(ld, view, seasonCache)
              ELSE IF morePages(off1, tot)
              THEN Step([ld EXCEPT !.map = map1, !.offset = off1, !.totalResults = tot],
                        view, seasonCache, {"request"})
              ELSE AfterMerge([ld EXCEPT !.map = <<>>, !.current = map1, !.offset = 0,
                                         !.totalResults = Infinity],
                              view, seasonCache))

\* await fetchJsonWithRetry(/<year>/<round>/results.json), attempt 0..3, and
\* the sleep(500 * (attempt + 1)) after an attempt without results
SimpleDone(l) ==
    /\ loads[l].pc = "simple"
    /\ \E out \in CallOutcomes :
        LET ld == loads[l]
            rows == RoundRows(ld.year, ld.idx, 0, UpstreamDefaultLimit, published)
        IN  Commit(l,
              IF out = "return" /\ rows > 0
              THEN ContinueSweep([ld EXCEPT !.current[ld.idx] = rows],
                                 view, seasonCache, ld.idx + 1)
              ELSE IF ld.attempt + 1 < 4
              THEN Step([ld EXCEPT !.attempt = @ + 1], view, seasonCache, {"request"})
              ELSE Step([ld EXCEPT !.pc = "fallback", !.attempt = 0],
                        view, seasonCache, {"request"}))

\* await fetchJsonWithRetry(...results.json?limit=200&offset=0)
FallbackDone(l) ==
    /\ loads[l].pc = "fallback"
    /\ \E out \in CallOutcomes :
        LET ld == loads[l]
            lim == Min(fallbackPageLimit, UpstreamMaxLimit)
            results == RoundRows(ld.year, ld.idx, 0, lim, published)
            total == UpstreamCount(ld.year, ld.idx, published)
            ld1 == [ld EXCEPT !.results = results, !.total = total, !.flimit = lim]
        IN  Commit(l,
              IF out = "throw" THEN ContinueSweep(ld, view, seasonCache, ld.idx + 1)
              ELSE IF total > results /\ lim < total
              THEN Step([ld1 EXCEPT !.pc = "fallbackPage", !.off = lim],
                        view, seasonCache, {"request"})
              ELSE FinishFallback(ld1, view, seasonCache))

\* await fetchJsonWithRetry(...results.json?limit=<limit>&offset=<off>)
FallbackPageDone(l) ==
    /\ loads[l].pc = "fallbackPage"
    /\ \E out \in CallOutcomes :
        LET ld == loads[l]
            more == IF out = "throw" THEN 0
                    ELSE RoundRows(ld.year, ld.idx, ld.off, ld.flimit, published)
            ld1 == [ld EXCEPT !.results = @ + more, !.off = @ + ld.flimit]
        IN  Commit(l,
              IF ld1.off < ld.total
              THEN Step(ld1, view, seasonCache, {"request"})
              ELSE FinishFallback(ld1, view, seasonCache))

\* await sleep(5000), then the next sweep.  `while (true)` puts no bound on
\* the sweeps: the run counts them up to MaxSweeps and goes on sweeping.
SweepWake(l) ==
    /\ loads[l].pc = "sweepSleep"
    /\ Commit(l, ContinueSweep([loads[l] EXCEPT !.sweeps = Min(@ + 1, MaxSweeps)],
                               view, seasonCache, 1))

NextSeason ==
    \/ \E y \in Years : SelectYear(y)
    \/ Unmount
    \/ \E y \in Years : Mount(y)
    \/ \E r \in 1..NumRounds : Publish(r)
    \/ \E l \in 1..Len(loads) : StandingsDone(l)
    \/ \E l \in 1..Len(loads) : RacesDone(l)
    \/ \E l \in 1..Len(loads) : PageDone(l)
    \/ \E l \in 1..Len(loads) : SimpleDone(l)
    \/ \E l \in 1..Len(loads) : FallbackDone(l)
    \/ \E l \in 1..Len(loads) : FallbackPageDone(l)
    \/ \E l \in 1..Len(loads) : SweepWake(l)

SpecSeason == InitSeason /\ [][NextSeason]_vars

\* Every run started so far is over.
LoadsOver == \A l \in 1..Len(loads) : loads[l].pc = "done"

\* The user selects a year, or comes back, only when no run is in progress.
NextSeasonSerial ==
    \/ LoadsOver /\ \E y \in Years : SelectYear(y)
    \/ Unmount
    \/ LoadsOver /\ \E y \in Years : Mount(y)
    \/ \E r \in 1..NumRounds : Publish(r)
    \/ \E l \in 1..Len(loads) : StandingsDone(l)
    \/ \E l \in 1..Len(loads) : RacesDone(l)
    \/ \E l \in 1..Len(loads) : PageDone(l)
    \/ \E l \in 1..Len(loads) : SimpleDone(l)
    \/ \E l \in 1..Len(loads) : FallbackDone(l)
    \/ \E l \in 1..Len(loads) : FallbackPageDone(l)
    \/ \E l \in 1..Len(loads) : SweepWake(l)

SpecSeasonSerial == InitSeason /\ [][NextSeasonSerial]_vars

(***************************************************************************)
(* SpecLoop: the first load() run alone, with fairness.  The event loop    *)
(* resumes a run whose await has settled (weak fairness of Resume); every  *)
(* round of the running season is published in the end, and a per-round    *)
(* request that can return results does so in the end (strong fairness of  *)
(* SimpleFills: the request is not outstanding all the time).              *)
(***************************************************************************)
\* The run resumes from the await it is suspended at.
Resume(l) ==
    /\ l \in 1..Len(loads)
    /\ \/ StandingsDone(l)
       \/ RacesDone(l)
       \/ PageDone(l)
       \/ SimpleDone(l)
       \/ FallbackDone(l)
       \/ FallbackPageDone(l)
       \/ SweepWake(l)

\* The simple per-round request returns a non-empty result list.
SimpleFills(l) ==
    /\ l \in 1..Len(loads)
    /\ SimpleDone(l)
    /\ \/ loads'[l].pc = "done"
       \/ loads'[l].current[loads[l].idx] > 0

NextLoop ==
    \/ \E r \in 1..NumRounds : Publish(r)
    \/ Resume(1)

SpecLoop ==
    /\ InitSeason
    /\ [][NextLoop]_vars
    /\ WF_vars(Resume(1))
    /\ SF_vars(SimpleFills(1))
    /\ \A r \in 1..NumRounds : WF_vars(Publish(r))

(***************************************************************************)
(* Caches of time-sensitive queries: fetchConstructorMetrics and           *)
(* fetchActiveDriverIds over sessionStorage, while the calendar advances   *)
(* and upstream data changes.  A stored value is modelled by the upstream  *)
(* revision it was computed from.                                          *)
(***************************************************************************)
DaysPerYear == 2    \* calendar days of a year
MaxDay == 3         \* days the clock advances in one behaviour
MaxRev == 1         \* changes of the upstream data in one behaviour

ConstructorIds == {"ferrari"}
CONSTRUCTOR_STATS_CACHE_PREFIX == "constructor_stats_v2_"
ACTIVE_STATUS_CACHE_PREFIX == "active_driver_ids_"

\* new Date().getFullYear() on day d
getFullYear(d) == RunningYear + (d \div DaysPerYear)

\* const seasonsToTry = ['current', String(currentYear - 1)]
seasonsToTry(currentYear) == <<"current", ToString(currentYear - 1)>>

ConstructorKeys == { CONSTRUCTOR_STATS_CACHE_PREFIX \o id : id \in ConstructorIds }
ActiveKeys ==
    { ACTIVE_STATUS_CACHE_PREFIX \o seasonsToTry(getFullYear(d))[i] :
        d \in 0..MaxDay, i \in 1..2 }
Keys == ConstructorKeys \cup ActiveKeys

\* sessionStorage.getItem(cacheKey) when nothing is stored
NoItem == [present |-> FALSE, year |-> 0, data |-> 0, writtenOn |-> 0]

\* JSON.stringify({ year: currentYear, metrics }).  writtenOn, the day of
\* the write, is not part of the stored value: it is kept for the claims.
ConstructorItem(currentYear, metrics, day) ==
    [present |-> TRUE, year |-> currentYear, data |-> metrics, writtenOn |-> day]

\* JSON.stringify({ ids: unique, constructors }): no tag at all
ActiveItem(ids, day) ==
    [present |-> TRUE, year |-> 0, data |-> ids, writtenOn |-> day]

\* if (parsed && parsed.year === currentYear && parsed.metrics)
constructorCacheHit(parsed, currentYear) ==
    parsed.present /\ parsed.year = currentYear

\* if (parsed?.ids && Array.isArray(parsed.ids) && parsed.constructors)
activeCacheHit(parsed) == parsed.present

\* How a call got the value it returned
Read(fn, key, hit, data, writtenOn) ==
    [fn |-> fn, key |-> key, hit |-> hit, data |-> data,
     writtenOn |-> writtenOn, readOn |-> today]

InitCache ==
    /\ today = 0
    /\ upstreamRev = 0
    /\ storage = [k \in Keys |-> NoItem]
    /\ call = NoCall
    /\ lastRead = NoRead
    /\ fx = FetchIdle
    /\ pg = PageIdle
    /\ SeasonIdle
    /\ ExtraIdle

\* The wall-clock day changes.
Midnight ==
    /\ today < MaxDay
    /\ today' = today + 1
    /\ UNCHANGED <<upstreamRev, storage, call, lastRead, fx, pg, seasonVars, extraVars>>

\* A race is run: upstream serves new results.
UpstreamChange ==
    /\ upstreamRev < MaxRev
    /\ upstreamRev' = upstreamRev + 1
    /\ UNCHANGED <<today, storage, call, lastRead, fx, pg, seasonVars, extraVars>>

\* fetchConstructorMetrics(id) up to its return from the cache or its await
ConstructorMetricsCalled(id) ==
    /\ call = NoCall
    /\ LET cacheKey == CONSTRUCTOR_STATS_CACHE_PREFIX \o id
           currentYear == getFullYear(today)
           cached == storage[cacheKey]
       IN  IF constructorCacheHit(cached, currentYear)
           THEN /\ lastRead' = Read("fetchConstructorMetrics", cacheKey, TRUE,
                                    cached.data, cached.writtenOn)
                /\ UNCHANGED call
           ELSE /\ call' = [fn |-> "fetchConstructorMetrics", id |-> id,
                            currentYear |-> currentYear, season |-> 0]
                /\ UNCHANGED lastRead
    /\ UNCHANGED <<today, upstreamRev, storage, fx, pg, seasonVars, extraVars>>

\* await fetchConstructorResultsPaginated(constructorId), the metrics and
\* the cache write
ConstructorResultsDone ==
    /\ call.fn = "fetchConstructorMetrics"
    /\ \E out \in CallOutcomes :
        LET cacheKey == CONSTRUCTOR_STATS_CACHE_PREFIX \o call.id
        IN  IF out = "throw"
            THEN UNCHANGED <<storage, lastRead>>
            ELSE /\ storage' = [storage EXCEPT ![cacheKey] =
                        ConstructorItem(call.currentYear, upstreamRev, today)]
                 /\ lastRead' = Read("fetchConstructorMetrics", cacheKey, FALSE,
                                     upstreamRev, today)
    /\ call' = NoCall
    /\ UNCHANGED <<today, upstreamRev, fx, pg, seasonVars, extraVars>>

\* The for loop of fetchActiveDriverIds from seasonsToTry[i] up to its return
\* from the cache, its await, or the throw after the loop
trySeason(currentYear, i) ==
    IF i > Len(seasonsToTry(currentYear))
    THEN /\ call' = NoCall
         /\ UNCHANGED lastRead
    ELSE LET season == seasonsToTry(currentYear)[i]
             cacheKey == ACTIVE_STATUS_CACHE_PREFIX \o season
             cached == storage[cacheKey]
         IN  IF activeCacheHit(cached)
             THEN /\ lastRead' = Read("fetchActiveDriverIds", cacheKey, TRUE,
                                      cached.data, cached.writtenOn)
                  /\ call' = NoCall
             ELSE /\ call' = [fn |-> "fetchActiveDriverIds", id |-> "",
                              currentYear |-> currentYear, season |-> i]
                  /\ UNCHANGED lastRead

\* fetchActiveDriverIds() up to its return from the cache or its await
ActiveDriverIdsCalled ==
    /\ call = NoCall
    /\ trySeason(getFullYear(today), 1)
    /\ UNCHANGED <<today, upstreamRev, storage, fx, pg, seasonVars, extraVars>>

\* await fetchJsonWithBackoff(/<season>/last/results.json): it throws, or
\* the season has no race yet, or the last race's results are stored
LastResultsDone ==
    /\ call.fn = "fetchActiveDriverIds"
    /\ \E out \in {"throw", "empty", "races"} :
        LET season == seasonsToTry(call.currentYear)[call.season]
            cacheKey == ACTIVE_STATUS_CACHE_PREFIX \o season
        IN  CASE out = "throw" ->
                   /\ call' = NoCall
                   /\ UNCHANGED <<storage, lastRead>>
              [] out = "empty" ->
                   /\ trySeason(call.currentYear, call.season + 1)
                   /\ UNCHANGED storage
              [] out = "races" ->
                   /\ storage' = [storage EXCEPT ![cacheKey] =
                                     ActiveItem(upstreamRev, today)]
                   /\ lastRead' = Read("fetchActiveDriverIds", cacheKey, FALSE,
                                       upstreamRev, today)
                   /\ call' = NoCall
    /\ UNCHANGED <<today, upstreamRev, fx, pg, seasonVars, extraVars>>

NextCache ==
    \/ Midnight
    \/ UpstreamChange
    \/ \E id \in ConstructorIds : ConstructorMetricsCalled(id)
    \/ ConstructorResultsDone
    \/ ActiveDriverIdsCalled
    \/ LastResultsDone

SpecCache == InitCache /\ [][NextCache]_vars

(***************************************************************************)
(* Claims about the resilient fetchers (checked under SpecFetch).          *)
(***************************************************************************)
Throttled429 == [status |-> 429, marker |-> FALSE]

\* Every response so far was HTTP 429.
AllThrottled == \A i \in 1..Len(fx.responses) : fx.responses[i] = Throttled429

\* The parameter each fetcher is configured with (its retry ceiling as C4
\* reads it) ...
ConfiguredCeiling(fn) ==
    IF fn \in BackoffFetchers THEN maxRetries
    ELSE IF fn = "SeasonResults" THEN retries ELSE MAX_RETRIES

\* ... and the number of requests its loop allows: `attempt < maxRetries`
\* gives maxRetries iterations, `attempt <= retries` gives retries + 1.
RequestCeiling(fn) ==
    IF fn \in BackoffFetchers THEN maxRetries
    ELSE IF fn = "SeasonResults" THEN retries + 1 ELSE MAX_RETRIES + 1

\* C4 as stated: against a URL that always answers 429, every fetcher
\* issues exactly its configured ceiling (maxRetries, retries) of requests
\* and then fails with a rate-limited error.
C4_ExactlyConfiguredCeiling ==
    AllThrottled =>
        /\ fx.pc # "returned"
        /\ Len(fx.responses) <= ConfiguredCeiling(fx.fn)
        /\ (fx.pc = "thrown" <=> Len(fx.responses) = ConfiguredCeiling(fx.fn))
        /\ (fx.pc = "thrown" => fx.error = "RateLimited")

\* C4 amended: against a URL that always answers 429, a fetcher never
\* returns; it fails, with a rate-limited error, exactly when it has issued
\* maxRetries requests (driver, compare and constructor pages) or
\* retries + 1 requests (season results, pit stops), and issues no more.
C4_ExactlyLoopBoundRequests ==
    AllThrottled =>
        /\ fx.pc # "returned"
        /\ Len(fx.responses) <= RequestCeiling(fx.fn)
        /\ (fx.pc = "thrown" <=> Len(fx.responses) = RequestCeiling(fx.fn))
        /\ (fx.pc = "thrown" => fx.error = "RateLimited")

\* C4 witness: the season fetcher has failed after four 429 responses.
C4_Witness ==
    /\ fx.fn = "SeasonResults"
    /\ fx.pc = "thrown"
    /\ fx.responses = <<Throttled429, Throttled429, Throttled429, Throttled429>>

\* A hard client error: non-2xx, not 429, not 5xx, no throttling marker.
IsClientError(res) ==
    /\ res # NetworkFailure
    /\ ~ok(res)
    /\ res.status # 429
    /\ res.status < 500
    /\ ~res.marker

\* C5: a call whose first response is a hard client error has failed after
\* that one request, with no backoff sleep and no second request.
C5_ClientErrorFailsAtOnce ==
    (Len(fx.responses) >= 1 /\ IsClientError(fx.responses[1])) =>
        /\ fx.pc = "thrown"
        /\ Len(fx.responses) = 1
        /\ fx.sleeps = <<>>

IsServerError(res) == res # NetworkFailure /\ res.status >= 500

\* C6: a call whose latest response is HTTP 5xx is retried like a 429: it
\* has failed only if that response used up the last allowed request.
C6_ServerErrorRetried ==
    (Len(fx.responses) >= 1 /\ IsServerError(fx.responses[Len(fx.responses)])) =>
        (fx.pc = "thrown" => Len(fx.responses) = RequestCeiling(fx.fn))

(***************************************************************************)
(* Claims about the paginators (checked under SpecPage).                   *)
(***************************************************************************)
\* ceil(T / limit), or one request for an empty collection
PagesExpected(T) == IF T = 0 THEN 1 ELSE (T + limit - 1) \div limit

\* 0, limit, 2 * limit, ... : the first n page offsets
Offsets(n) == [i \in 1..n |-> (i - 1) * limit]

\* C7: a run of fetchPaginatedRaces, fetchConstructorResultsPaginated or
\* fetchDriversRateLimited that meets only plain 200 responses requests the
\* offsets 0, limit, 2*limit, ... in that order, never fails, and returns
\* after exactly ceil(T/limit) requests (one when T = 0) with the T upstream
\* entries in upstream order.
C7_PaginationComplete ==
    (pg.fn \in FetchPaginators \cup {"fetchDriversRateLimited"} /\ pg.clean) =>
        /\ pg.pc # "thrown"
        /\ pg.requests = Offsets(Len(pg.requests))
        /\ Len(pg.requests) <= PagesExpected(pg.T)
        /\ pg.pc = "returned" =>
              /\ Len(pg.requests) = PagesExpected(pg.T)
              /\ pg.all = [i \in 1..pg.T |-> i]

\* C7 witness: a three-page collection has been fetched without throttling.
C7_Witness ==
    /\ pg.fn = "fetchPaginatedRaces"
    /\ pg.pc = "returned"
    /\ pg.clean
    /\ pg.T = 2 * limit + 1
    /\ pg.requests = <<0, limit, 2 * limit>>

\* How many times `offset` has been requested so far.
RequestsAt(offset) ==
    Cardinality({ i \in 1..Len(pg.requests) : pg.requests[i] = offset })

\* C8: no paginator requests one offset more often than a fixed retry
\* ceiling (MAX_RETRIES + 1, the largest ceiling of any fetcher): under
\* sustained 429 it stops with a failure.
C8_BoundedPageRequests ==
    \A i \in 1..Len(pg.requests) : RequestsAt(pg.requests[i]) <= MAX_RETRIES + 1

(***************************************************************************)
(* Claims about the season load (SpecSeason, SpecSeasonSerial).            *)
(***************************************************************************)
\* C1: once the season-results view is torn down or the selected year
\* changes, the load in progress for the previous year and its background
\* loop issue no further request, write nothing to the cache and update no
\* view state.
C1_SupersededLoadIsInert == lateOps = {}

\* C2: in every reachable state, an entry stored under seasonResults_<year>
\* holds every round of the season, each with a non-empty result list: a
\* season with a round still missing results is never written to the cache.
C2_CacheHoldsOnlyCompleteSeasons ==
    \A y \in Years :
        seasonCache[y].present =>
            /\ Len(seasonCache[y].races) = RoundsIn(y)
            /\ Missing(seasonCache[y].races) = {}

\* The running season was cached by a loop that slept through a sweep that
\* had left a round missing.
C2_Witness ==
    /\ seasonCache[RunningYear].present
    /\ \E l \in 1..Len(loads) :
        /\ loads[l].year = RunningYear
        /\ loads[l].outcome = "complete"
        /\ loads[l].sweeps >= 1

\* C3: a season load writes the seasonResults_<year> entry exactly once, in
\* the step in which it completes with no round missing (after the initial
\* merge, or at the end of the sweep that fills the last missing round);
\* while it has not completed, and after any sweep that ended with a round
\* still missing, it has written nothing.
C3_CacheWrittenOnceAtCompletion ==
    \A l \in 1..Len(loads) :
        LET ld == loads[l]
            complete == ld.pc = "done" /\ ld.outcome = "complete"
        IN  /\ ld.writes = IF complete THEN 1 ELSE 0
            /\ complete => seasonCache[ld.year].present
            /\ ld.pc = "sweepSleep" => Missing(ld.current) # {}

\* A run wrote the cache once, at the end of a sweep that followed one that
\* had ended with a round missing.
C3_Witness ==
    \E l \in 1..Len(loads) :
        /\ loads[l].pc = "done"
        /\ loads[l].writes = 1
        /\ loads[l].sweeps >= 1

\* The awaits at which a request of a load() run is in flight
RequestInFlight ==
    {"standings", "races", "page", "simple", "fallback", "fallbackPage"}

\* C9: a season load started while the cache already holds the season's
\* results issues no upstream request (the same is claimed of the driver,
\* constructor and circuit loads).
C9_CachedLoadIssuesNoRequest ==
    \A l \in 1..Len(loads) :
        loads[l].cachedAtStart => loads[l].pc \notin RequestInFlight

(***************************************************************************)
(* Claims about the time-sensitive caches (SpecCache).                     *)
(***************************************************************************)
\* The keys the daily freshness is claimed for
TimeSensitiveKeys ==
    ConstructorKeys \cup { ACTIVE_STATUS_CACHE_PREFIX \o "current" }

\* C10: an entry under constructor_stats_v2_<id> or
\* active_driver_ids_current written on calendar day D is treated as absent
\* when read on a later day: no call returns from such an entry.
C10_DayOldEntryTreatedAbsent ==
    (lastRead.hit /\ lastRead.key \in TimeSensitiveKeys)
        => lastRead.readOn = lastRead.writtenOn

(***************************************************************************)
(* Cached reads.  What sessionStorage holds under a key is modelled by     *)
(* what the readers can see of it: whether getItem returns a string,       *)
(* whether the string is empty, whether JSON.parse accepts it, and of the  *)
(* parsed value its type, whether it is an object carrying the current     *)
(* year and a truthy `metrics`, and whether it has the payload shape the   *)
(* reader's caller works with.                                             *)
(***************************************************************************)
\* A stored string that JSON.parse accepts
Json(type, tagged, expected) ==
    [kind |-> "json", type |-> type, tagged |-> tagged, expected |-> expected]

StoredStrings ==
    { Absent,
      [kind |-> "empty", type |-> "none", tagged |-> FALSE, expected |-> FALSE],
      [kind |-> "garbage", type |-> "none", tagged |-> FALSE, expected |-> FALSE] }
    \cup { Json(t, FALSE, FALSE) : t \in {"null", "number"} }
    \cup { Json("array", FALSE, e) : e \in BOOLEAN }
    \cup { Json("object", t, e) : t \in BOOLEAN, e \in BOOLEAN }

Readers == {"fetchDriversRateLimited", "fetchDriverCareerStats",
            "fetchConstructorMetrics", "fetchCircuitRaceStats",
            "SeasonResults", "getCachedStops"}

\* if (cached): null and the empty string are falsy
truthy(cached) == cached.kind \notin {"absent", "empty"}

\* JSON.parse(cached) returns (it throws a SyntaxError otherwise)
parses(cached) == cached.kind = "json"

\* Array.isArray(parsed)
isArray(parsed) == parsed.type = "array"

Hit(glimpse) == [hit |-> TRUE, glimpse |-> glimpse]
Miss(glimpse) == [hit |-> FALSE, glimpse |-> glimpse]

\* fetchDriversRateLimited: if (Array.isArray(parsed)) return parsed
readDriverList(cached) ==
    IF truthy(cached) /\ parses(cached) /\ isArray(cached)
    THEN Hit(FALSE) ELSE Miss(FALSE)

\* fetchDriverCareerStats, fetchCircuitRaceStats, fetchCircuitResults:
\* try { return JSON.parse(cached) } catch {}
readParsed(cached) ==
    IF truthy(cached) /\ parses(cached) THEN Hit(FALSE) ELSE Miss(FALSE)

\* fetchConstructorMetrics:
\* if (parsed && parsed.year === currentYear && parsed.metrics) return parsed.metrics
readConstructorMetrics(cached) ==
    IF truthy(cached) /\ parses(cached) /\ cached.type # "null" /\ cached.tagged
    THEN Hit(FALSE) ELSE Miss(FALSE)

\* SeasonResults: setSeasonRaces(parsed), then parsed.filter(...), which
\* throws on anything but an array; the catch falls through to the fetch.
readSeasonResults(cached) ==
    IF truthy(cached) /\ parses(cached)
    THEN IF isArray(cached) THEN Hit(FALSE) ELSE Miss(TRUE)
    ELSE Miss(FALSE)

\* getCachedStops: return Array.isArray(parsed) ? parsed : null
getCachedStops(cached) ==
    IF truthy(cached) /\ parses(cached) /\ isArray(cached)
    THEN Hit(FALSE) ELSE Miss(FALSE)

CachedRead(reader, cached) ==
    CASE reader = "fetchDriversRateLimited" -> readDriverList(cached)
      [] reader = "fetchDriverCareerStats" -> readParsed(cached)
      [] reader = "fetchCircuitRaceStats" -> readParsed(cached)
      [] reader = "fetchConstructorMetrics" -> readConstructorMetrics(cached)
      [] reader = "SeasonResults" -> readSeasonResults(cached)
      [] reader = "getCachedStops" -> getCachedStops(cached)

InitRead ==
    /\ \E reader \in Readers, stored \in StoredStrings :
         rd = [ReadIdle EXCEPT !.reader = reader, !.pc = "start", !.stored = stored]
    /\ fx = FetchIdle
    /\ pg = PageIdle
    /\ SeasonIdle
    /\ CacheIdle
    /\ PitIdle
    /\ FoldIdle
    /\ panel = PanelIdle

\* The loader up to its return from the cache or its first request
ReadCache ==
    /\ rd.pc = "start"
    /\ LET r == CachedRead(rd.reader, rd.stored)
       IN  rd' = [rd EXCEPT !.hit = r.hit, !.glimpse = r.glimpse,
                            !.pc = IF r.hit THEN "returned" ELSE "fetching",
                            !.value = IF r.hit THEN "stored" ELSE "none"]
    /\ UNCHANGED exceptRead

\* The fetch after a miss returns the fresh value or fails upstream.
FreshFetch ==
    /\ rd.pc = "fetching"
    /\ \E out \in CallOutcomes :
        rd' = [rd EXCEPT !.pc = IF out = "return" THEN "returned" ELSE "failed",
                         !.value = IF out = "return" THEN "fresh" ELSE "none"]
    /\ UNCHANGED exceptRead

NextRead ==
    \/ ReadCache
    \/ FreshFetch

SpecRead == InitRead /\ [][NextRead]_vars

(***************************************************************************)
(* Claims about cached reads (SpecRead).                                   *)
(***************************************************************************)
\* The type of value each reader's caller works with
ExpectedType(reader) ==
    IF reader \in {"fetchDriversRateLimited", "SeasonResults", "getCachedStops"}
    THEN "array" ELSE "object"

\* The stored string is valid JSON of the expected payload shape.
WellFormed(reader, stored) ==
    /\ stored.kind = "json"
    /\ stored.type = ExpectedType(reader)
    /\ stored.expected
    /\ reader = "fetchConstructorMetrics" => stored.tagged

\* C11: for every cached read, a stored string that is not valid JSON or
\* does not have the expected payload shape is treated as a miss: the call
\* never returns the stored value.
C11_MalformedEntryIsMiss ==
    (rd.pc # "start" /\ ~WellFormed(rd.reader, rd.stored)) => ~rd.hit

(***************************************************************************)
(* Claims about the reconciliation loop (SpecLoop).                        *)
(***************************************************************************)
\* The run is in its background loop.
InLoop(l) == loads[l].pc \in {"simple", "fallback", "fallbackPage", "sweepSleep"}

\* The run has stopped with the season complete and written to the cache.
Reconciled(l) ==
    /\ loads[l].pc = "done"
    /\ loads[l].outcome = "complete"
    /\ loads[l].writes = 1
    /\ seasonCache[loads[l].year].present
    /\ Missing(seasonCache[loads[l].year].races) = {}

\* C12: when upstream eventually returns results for every round missing
\* after the initial merge, the loop eventually has no round missing, has
\* written the season to the cache and has stopped; until then it does not
\* stop: after every sweep that left a round missing it sweeps again, and
\* it never ends while a round is empty upstream.
C12_LoopReconcilesEventually ==
    /\ InLoop(1) ~> Reconciled(1)
    /\ (loads[1].pc = "sweepSleep") ~> (loads[1].pc # "sweepSleep")
    /\ [](InLoop(1) => [](loads[1].pc = "done" => Reconciled(1)))
    /\ [](Reconciled(1) => \A r \in 1..RoundsIn(loads[1].year) :
                               UpstreamCount(loads[1].year, r, published) > 0)

\* The loop completed the running season after more sweeps than the count
\* distinguishes.
C12_Witness ==
    /\ Reconciled(1)
    /\ loads[1].year = RunningYear
    /\ loads[1].sweeps = MaxSweeps
    /\ \A r \in 1..NumRounds : published[r]

(***************************************************************************)
(* Pitstops: the scan of a range of seasons (loadPitstopStats) and the     *)
(* effect that starts it.  Upstream lists races for the first              *)
(* SeasonsWithRaces seasons only; a race has BusyRaceStops pit stops or    *)
(* none.  In this part a race's stops are modelled by their number, each   *)
(* with a duration that parses.                                            *)
(***************************************************************************)
MIN_YEAR == 2011
MAX_YEAR == 2025
PITSTOP_PAGE_LIMIT == 100

SeasonsWithRaces == 2   \* seasons, from MIN_YEAR on, that have races upstream
RacesPerSeason == 1     \* races of such a season
BusyRaceStops == 150    \* pit stops of a race that has any
UpstreamDrivers == 150  \* drivers listed by /drivers.json
MaxScans == 2           \* scans started in one behaviour

\* Values typed into the From and To selectors
YearInputs == {MIN_YEAR - 1, MIN_YEAR + 1, MAX_YEAR + 1}

\* The year is taken as given.
clampYearNone(year) == year

\* const clampYear = (year) => Math.min(MAX_YEAR, Math.max(MIN_YEAR, year))
clampYear(year) == Min(MAX_YEAR, Max(MIN_YEAR, year))

\* racesData.MRData.RaceTable.Races.length of /<season>.json
RacesIn(season) ==
    IF season < MIN_YEAR + SeasonsWithRaces THEN RacesPerSeason ELSE 0

\* MRData.total of /<season>/<round>/pitstops.json
StopsIn(season, round) ==
    IF (season + round) % 2 = 0 THEN BusyRaceStops ELSE 0

\* The state after the resets at the top of loadPitstopStats
PitViewReset(v, from, to) ==
    [v EXCEPT !.from = from, !.to = to, !.loading = TRUE, !.error = "",
              !.progress = 0, !.shown = FALSE, !.totalStops = 0,
              !.totalRaces = 0]

\* A loadPitstopStats run: the effect's `cancelled` flag, the await the run
\* is suspended at and its locals.
NewScan(from, to) ==
    [from |-> from, to |-> to, cancelled |-> FALSE, pc |-> "start",
     outcome |-> "", season |-> from, round |-> 0, offset |-> 0,
     total |-> Infinity, raceStops |-> 0, stopsCount |-> 0,
     racesWithStops |-> 0]

\* What one resumption of a scan does: the run's new state, the new
\* component state and storage, and the kinds of effect it had ("request",
\* "cache", "view").
PitStep(sc, v, st, ops) == [sc |-> sc, view |-> v, store |-> st, ops |-> ops]

\* A state setter acts on a mounted component only.
PitSet(v, w) == IF pitMounted THEN w ELSE v
PitViewOps == IF pitMounted THEN {"view"} ELSE {}

\* The run is over.
ScanDone(sc, outcome) ==
    [sc EXCEPT !.pc = "done", !.outcome = outcome, !.season = 0, !.round = 0,
               !.offset = 0, !.total = Infinity, !.raceStops = 0,
               !.stopsCount = 0, !.racesWithStops = 0]

\* finally { if (!cancelled) setLoading(false) }
PitFinally(x, outcome) ==
    PitStep(ScanDone(x.sc, outcome),
            IF x.sc.cancelled THEN x.view
            ELSE PitSet(x.view, [x.view EXCEPT !.loading = FALSE]),
            x.store,
            x.ops \cup (IF x.sc.cancelled THEN {} ELSE PitViewOps))

\* catch (err) { setError('Failed to fetch pit stop data...') } finally {...}
PitFail(x) ==
    PitFinally([x EXCEPT !.view = PitSet(x.view, [x.view EXCEPT !.error = "failed"]),
                         !.ops = @ \cup PitViewOps],
               "failed")

\* After the loops: if (cancelled) return; the error for an empty range or
\* the results.
FinishScan(x) ==
    IF x.sc.cancelled THEN PitFinally(x, "cancelled")
    ELSE IF x.sc.stopsCount = 0
    THEN PitFinally([x EXCEPT
                       !.view = PitSet(x.view, [x.view EXCEPT
                                   !.error = "none found",
                                   !.totalStops = x.sc.stopsCount,
                                   !.totalRaces = x.sc.racesWithStops]),
                       !.ops = @ \cup PitViewOps],
                    "empty")
    ELSE PitFinally([x EXCEPT
                       !.view = PitSet(x.view, [x.view EXCEPT
                                   !.shown = TRUE,
                                   !.totalStops = x.sc.stopsCount,
                                   !.totalRaces = x.sc.racesWithStops,
                                   !.progress = 0]),
                       !.ops = @ \cup PitViewOps],
                    "shown")

RECURSIVE EnterSeason(_), EnterRace(_), AfterStops(_)

\* for (let season = ...; season <= toYear; ...) { if (cancelled) return;
\* setProgress; await fetchJsonWithBackoff(/<season>.json)
EnterSeason(x) ==
    IF x.sc.season > x.sc.to THEN FinishScan(x)
    ELSE IF x.sc.cancelled THEN PitFinally(x, "cancelled")
    ELSE PitStep([x.sc EXCEPT !.pc = "season", !.round = 0],
                 PitSet(x.view, [x.view EXCEPT !.progress = x.sc.season]),
                 x.store,
                 x.ops \cup PitViewOps \cup {"request"})

\* for (const race of races) { if (cancelled) return; setProgress;
\* getCachedStops; the first page request when nothing is cached
EnterRace(x) ==
    IF x.sc.round > RacesIn(x.sc.season)
    THEN EnterSeason([x EXCEPT !.sc.season = @ + 1, !.sc.round = 0])
    ELSE IF x.sc.cancelled THEN PitFinally(x, "cancelled")
    ELSE LET v1 == PitSet(x.view, [x.view EXCEPT !.progress = x.sc.season])
             x1 == [x EXCEPT !.view = v1, !.ops = @ \cup PitViewOps]
         IN  IF <<x.sc.season, x.sc.round>> \in x.store.stops
             THEN AfterStops([x1 EXCEPT !.sc.raceStops =
                                           StopsIn(x.sc.season, x.sc.round)])
             ELSE PitStep([x.sc EXCEPT !.pc = "page", !.offset = 0,
                                       !.total = Infinity, !.raceStops = 0],
                          v1, x.store, x1.ops \cup {"request"})

\* if (raceStops.length === 0) continue; racesWithStops += 1;
\* stopsCount += raceStops.length; the per-stop fold; the next race
AfterStops(x) ==
    LET n == x.sc.raceStops
        sc1 == IF n = 0 THEN x.sc
               ELSE [x.sc EXCEPT !.racesWithStops = @ + 1, !.stopsCount = @ + n]
    IN  EnterRace([x EXCEPT !.sc = [sc1 EXCEPT !.round = @ + 1, !.raceStops = 0,
                                               !.offset = 0, !.total = Infinity]])

\* loadPitstopStats up to its first request: the resets, then loadDriverNames
\* answered from the component state or the cache, or its first page request
StartScan(from, to, v, st) ==
    LET v0 == PitViewReset(v, from, to)
        sc == NewScan(from, to)
    IN  IF v.names
        THEN EnterSeason(PitStep(sc, v0, st, {"view"}))
        ELSE IF st.names
        THEN EnterSeason(PitStep(sc, [v0 EXCEPT !.names = TRUE], st, {"view"}))
        ELSE PitStep([sc EXCEPT !.pc = "names", !.offset = 0, !.total = Infinity],
                     v0, st, {"view", "request"})

PitCommit(k, r) ==
    /\ scans' = [scans EXCEPT ![k] = r.sc]
    /\ pitView' = r.view
    /\ pitStore' = r.store
    /\ pitLate' = IF scans[k].cancelled THEN pitLate \cup r.ops ELSE pitLate
    /\ UNCHANGED <<pitMounted, exceptPit>>

\* The current state of scan k, as the argument of its resumption
Resumed(k) == PitStep(scans[k], pitView, pitStore, {})

InitPit ==
    /\ LET r == StartScan(MIN_YEAR, MAX_YEAR, PitViewIdle,
                          [names |-> FALSE, stops |-> {}])
       IN  /\ scans = <<r.sc>>
           /\ pitView = r.view
           /\ pitStore = r.store
    /\ pitMounted = TRUE
    /\ pitLate = {}
    /\ fx = FetchIdle
    /\ pg = PageIdle
    /\ SeasonIdle
    /\ CacheIdle
    /\ rd = ReadIdle
    /\ FoldIdle
    /\ panel = PanelIdle

\* The effect re-runs for a new range: the cleanup sets `cancelled` of the
\* previous run, then loadPitstopStats starts.
\* (at most n runs are started in one behaviour)
RerunWithin(n, nextFrom, nextTo) ==
    /\ pitMounted
    /\ Len(scans) < n
    /\ <<nextFrom, nextTo>> # <<pitView.from, pitView.to>>
    /\ LET r == StartScan(nextFrom, nextTo, pitView, pitStore)
       IN  /\ scans' = Append([scans EXCEPT ![Len(scans)].cancelled = TRUE], r.sc)
           /\ pitView' = r.view
           /\ pitStore' = r.store
    /\ UNCHANGED <<pitMounted, pitLate, exceptPit>>

\* handleFromChange(value)
handleFromChange(n, value) ==
    LET nextFrom == clampYear(value)
        nextTo == Max(nextFrom, clampYear(pitView.to))
    IN  RerunWithin(n, nextFrom, nextTo)

\* handleToChange(value)
handleToChange(n, value) ==
    LET nextTo == clampYear(value)
        nextFrom == Min(clampYear(pitView.from), nextTo)
    IN  RerunWithin(n, nextFrom, nextTo)

FromChange(value) == handleFromChange(MaxScans, value)
ToChange(value) == handleToChange(MaxScans, value)

\* The user navigates away: the cleanup sets `cancelled`.
PitUnmount ==
    /\ pitMounted
    /\ pitMounted' = FALSE
    /\ scans' = [scans EXCEPT ![Len(scans)].cancelled = TRUE]
    /\ UNCHANGED <<pitView, pitStore, pitLate, exceptPit>>

\* await fetchJsonWithBackoff(drivers.json page) in loadDriverNames
NamesPageDone(k) ==
    /\ scans[k].pc = "names"
    /\ \E out \in CallOutcomes :
        LET x == Resumed(k)
            total == UpstreamDrivers
            offset == x.sc.offset + limit
        IN  PitCommit(k,
              IF out = "throw" THEN PitFail(x)
              ELSE IF total # 0 /\ morePages(offset, total)
              THEN PitStep([x.sc EXCEPT !.offset = offset, !.total = total],
                           x.view, x.store, {"request"})
              ELSE EnterSeason(
                     PitStep([x.sc EXCEPT !.offset = 0, !.total = Infinity],
                             PitSet(x.view, [x.view EXCEPT !.names = TRUE]),
                             [x.store EXCEPT !.names = TRUE],
                             PitViewOps \cup {"cache"})))

\* await fetchJsonWithBackoff(/<season>.json)
SeasonDone(k) ==
    /\ scans[k].pc = "season"
    /\ \E out \in CallOutcomes :
        LET x == Resumed(k)
        IN  PitCommit(k,
              IF out = "throw" THEN PitFail(x)
              ELSE EnterRace([x EXCEPT !.sc.round = 1]))

\* await fetchJsonWithBackoff(pitstops.json page), the rest of the page
\* loop, cacheStops and the fold of the race
StopsPageDone(k) ==
    /\ scans[k].pc = "page"
    /\ \E out \in CallOutcomes :
        LET x == Resumed(k)
            total == StopsIn(x.sc.season, x.sc.round)
            stopsPage == Max(0, Min(PITSTOP_PAGE_LIMIT, total - x.sc.offset))
            offset == x.sc.offset + PITSTOP_PAGE_LIMIT
            sc1 == [x.sc EXCEPT !.raceStops = @ + stopsPage, !.total = total]
        IN  PitCommit(k,
              IF out = "throw" THEN PitFail(x)
              ELSE IF total # 0 /\ morePages(offset, total)
              THEN PitStep([sc1 EXCEPT !.offset = offset], x.view, x.store,
                           {"request"})
              ELSE AfterStops(
                     PitStep(sc1, x.view,
                             [x.store EXCEPT !.stops =
                                 @ \cup {<<x.sc.season, x.sc.round>>}],
                             {"cache"})))

NextPit ==
    \/ \E value \in YearInputs : FromChange(value)
    \/ \E value \in YearInputs : ToChange(value)
    \/ PitUnmount
    \/ \E k \in 1..Len(scans) : NamesPageDone(k)
    \/ \E k \in 1..Len(scans) : SeasonDone(k)
    \/ \E k \in 1..Len(scans) : StopsPageDone(k)

SpecPit == InitPit /\ [][NextPit]_vars

(***************************************************************************)
(* Claims about the pit-stop scan (SpecPit).                               *)
(***************************************************************************)
\* C13: a cancelled pit-stop scan lets only the request in flight complete:
\* it issues no further request, writes nothing to the cache and updates no
\* view state, the error state included.
C13_CancelledScanIsInert == pitLate = {}

(***************************************************************************)
(* Claims about the rounds the loop fills (SpecSeasonSerial).              *)
(***************************************************************************)
\* C14: a round that was missing after the initial merge and that the loop
\* has filled holds every result upstream reports for the round; a round is
\* never accepted with part of its results.
C14_FilledRoundIsWhole ==
    \A l \in 1..Len(loads) :
        \A r \in loads[l].missing :
            loads[l].current[r] > 0 =>
                loads[l].current[r] = UpstreamCount(loads[l].year, r, published)

(***************************************************************************)
(* fetchDriverCareerStats: the fold over the result races and the          *)
(* qualifying races of a driver (SpecCareer).                              *)
(*                                                                         *)
(* A field of an upstream entry is a string, null or undefined.  A race    *)
(* of resultsRaces is a record                                             *)
(*   season, round   race.season, race.round                               *)
(*   has             whether race.Results is an array with a first entry   *)
(*   position, points, cid   the fields of race.Results[0]                 *)
(* and a race of qualifyingRaces a record (has, position) for              *)
(* race.QualifyingResults[0].                                              *)
(***************************************************************************)
MaxRaces == 3       \* races in resultsRaces or in qualifyingRaces

Null == "<null>"
Undefined == "<undefined>"

\* A JavaScript number: finite with a value, or NaN
Finite(n) == [finite |-> TRUE, value |-> n]
NaN == [finite |-> FALSE, value |-> 0]

\* The decimal strings of the inputs and their values
NumericStrings == {"0", "1", "2", "10", "25", "2020", "2021"}
Decimal(s) ==
    CASE s = "0" -> 0
      [] s = "1" -> 1
      [] s = "2" -> 2
      [] s = "10" -> 10
      [] s = "25" -> 25
      [] s = "2020" -> 2020
      [] s = "2021" -> 2021

\* Number(v): a decimal string is its value, null and the empty string are
\* 0, undefined and any other text are NaN
Number(v) ==
    IF v \in NumericStrings THEN Finite(Decimal(v))
    ELSE IF v \in {Null, ""} THEN Finite(0)
    ELSE NaN

\* parseFloat(v) of a string: the number the string starts with; the empty
\* string and text without a leading number are NaN
parseFloat(v) ==
    IF v \in NumericStrings THEN Finite(Decimal(v))
    ELSE IF v = "7x" THEN Finite(7)
    ELSE NaN

\* Number.MAX_SAFE_INTEGER, here 2^31 - 1: above every season and round
MAX_SAFE_INTEGER == 2147483647

\* parseFloat(result.points ?? '0') || 0
pts(race) ==
    LET p == parseFloat(IF race.points \in {Null, Undefined} THEN "0" ELSE race.points)
    IN  IF p.finite /\ p.value # 0 THEN p.value ELSE 0

\* if (season)
seasonGiven(season) == season \notin {Null, Undefined, ""}

\* Number.isFinite(seasonNum) ? seasonNum : Number.MAX_SAFE_INTEGER
rank(v) == IF Number(v).finite THEN Number(v).value ELSE MAX_SAFE_INTEGER

\* isEarlier of a later entry of a constructor, compared on season only
isEarlierBySeason(seasonRank, roundRank, existing) ==
    seasonRank < existing.firstSeason

isEarlier(seasonRank, roundRank, existing) ==
    \/ seasonRank < existing.firstSeason
    \/ (seasonRank = existing.firstSeason /\ roundRank < existing.firstRound)

\* The body of `for (const race of resultsRaces)` on the accumulators c
foldResult(c, race) ==
    IF ~race.has THEN c
    ELSE
    LET seasonRank == rank(race.season)
        roundRank == rank(race.round)
        won == race.position = "1"
        finishPos == Number(race.position)
        cid == race.cid
        pbs == c.pointsBySeason
        pointsBySeason ==
            IF seasonGiven(race.season)
            THEN [s \in DOMAIN pbs \cup {race.season} |->
                    IF s = race.season
                    THEN (IF s \in DOMAIN pbs THEN pbs[s] ELSE 0) + pts(race)
                    ELSE pbs[s]]
            ELSE pbs
        cm == c.constructorMap
        row ==
            IF cid \notin DOMAIN cm
            THEN [constructorId |-> cid, name |-> cid, races |-> 0, wins |-> 0,
                  points |-> 0, firstSeason |-> seasonRank,
                  firstRound |-> roundRank]
            ELSE IF isEarlier(seasonRank, roundRank, cm[cid])
            THEN [cm[cid] EXCEPT !.firstSeason = seasonRank,
                                 !.firstRound = roundRank]
            ELSE cm[cid]
        counted == [row EXCEPT !.races = @ + 1, !.points = @ + pts(race),
                               !.wins = @ + (IF won THEN 1 ELSE 0)]
    IN  [c EXCEPT
            !.pointsBySeason = pointsBySeason,
            !.wins = @ + (IF won THEN 1 ELSE 0),
            !.finishPosSum = @ + (IF finishPos.finite THEN finishPos.value ELSE 0),
            !.finishPosCount = @ + (IF finishPos.finite THEN 1 ELSE 0),
            !.created = IF cid \in DOMAIN cm THEN @ ELSE Append(@, cid),
            !.constructorMap = [k \in DOMAIN cm \cup {cid} |->
                                   IF k = cid THEN counted ELSE cm[k]]]

\* The body of `for (const race of qualifyingRaces)`
foldQualifying(c, race) ==
    IF ~race.has THEN c
    ELSE
    LET qualiPos == Number(race.position)
    IN  [c EXCEPT
            !.poles = @ + (IF race.position = "1" THEN 1 ELSE 0),
            !.qualiPosSum = @ + (IF qualiPos.finite THEN qualiPos.value ELSE 0),
            !.qualiPosCount = @ + (IF qualiPos.finite THEN 1 ELSE 0)]

\* sum / count, or null; a quotient is kept as its two terms
NoAverage == [null |-> TRUE, sum |-> 0, count |-> 1]
average(sum, count) ==
    IF count > 0 THEN [null |-> FALSE, sum |-> sum, count |-> count]
    ELSE NoAverage

\* Object.values(pointsBySeason).reduce((sum, pts) => sum + pts, 0)
RECURSIVE totalPoints(_)
totalPoints(pointsBySeason) ==
    IF DOMAIN pointsBySeason = {} THEN 0
    ELSE LET s == CHOOSE k \in DOMAIN pointsBySeason : TRUE
         IN  pointsBySeason[s]
             + totalPoints([k \in DOMAIN pointsBySeason \ {s} |-> pointsBySeason[k]])

\* The comparator of the constructorBreakdown sort
compareRows(a, b) ==
    IF a.firstSeason # b.firstSeason THEN a.firstSeason - b.firstSeason
    ELSE a.firstRound - b.firstRound

\* Array.prototype.sort is stable: a row goes before the first row that the
\* comparator puts after it
RECURSIVE insertRow(_, _)
insertRow(sorted, row) ==
    IF sorted = <<>> THEN <<row>>
    ELSE IF compareRows(sorted[1], row) > 0 THEN <<row>> \o sorted
    ELSE <<sorted[1]>> \o insertRow(Tail(sorted), row)

RECURSIVE sortRows(_)
sortRows(rows) ==
    IF rows = <<>> THEN <<>>
    ELSE insertRow(sortRows(SubSeq(rows, 1, Len(rows) - 1)), rows[Len(rows)])

\* Object.values(constructorMap): the rows in creation order
valuesOf(c) == [n \in 1..Len(c.created) |-> c.constructorMap[c.created[n]]]

\* The stats object built after the two loops
statsOf(c) ==
    [racesStarted |-> Len(c.resultsRaces),
     wins |-> c.wins,
     poles |-> c.poles,
     seasons |-> Cardinality(DOMAIN c.pointsBySeason),
     totalPoints |-> totalPoints(c.pointsBySeason),
     avgFinish |-> average(c.finishPosSum, c.finishPosCount),
     avgQualifying |-> average(c.qualiPosSum, c.qualiPosCount),
     pointsBySeason |-> c.pointsBySeason,
     constructorBreakdown |-> sortRows(valuesOf(c))]

\* The inputs: result races that differ in finishing position, in points and
\* season, or in constructor, season and round; qualifying races that differ
\* in position
PositionInputs == {"1", "2", "DNF", "", Null}
ResultRace(season, round, position, points, cid) ==
    [season |-> season, round |-> round, has |-> TRUE, position |-> position,
     points |-> points, cid |-> cid]
NoResult == [season |-> "2020", round |-> "2", has |-> FALSE,
             position |-> Undefined, points |-> Undefined, cid |-> "a"]
PositionRaces ==
    {ResultRace("2020", "2", p, "0", "a") : p \in PositionInputs} \cup {NoResult}
PointsRaces ==
    {ResultRace(s, "2", e[1], e[2], "a") :
        s \in {"2020", "2021", Undefined},
        e \in {<<"1", "10">>, <<"1", "25">>, <<"DNF", "0">>}}
ConstructorRaces ==
    {ResultRace(s, r, "2", "0", k) :
        s \in {"2020", "2021", Undefined}, r \in {"2", "10"}, k \in {"a", "b"}}
QualifyingRaces ==
    {[has |-> TRUE, position |-> p] : p \in PositionInputs}
        \cup {[has |-> FALSE, position |-> Undefined]}

UpTo(S, n) == UNION {[1..m -> S] : m \in 0..n}

NewCareer(resultsRaces, qualifyingRaces) ==
    [pc |-> "fold", resultsRaces |-> resultsRaces,
     qualifyingRaces |-> qualifyingRaces, i |-> 1, j |-> 1,
     pointsBySeason |-> <<>>, wins |-> 0, finishPosSum |-> 0,
     finishPosCount |-> 0, constructorMap |-> <<>>, created |-> <<>>,
     poles |-> 0, qualiPosSum |-> 0, qualiPosCount |-> 0]

InitCareer ==
    /\ \/ \E rs \in UpTo(PositionRaces, MaxRaces) \cup UpTo(PointsRaces, MaxRaces)
                      \cup UpTo(ConstructorRaces, MaxRaces) :
            career = NewCareer(rs, <<>>)
       \/ \E qs \in UpTo(QualifyingRaces, MaxRaces) :
            career = NewCareer(<<>>, qs)
    /\ fold = StopsIdle
    /\ fx = FetchIdle
    /\ pg = PageIdle
    /\ SeasonIdle
    /\ CacheIdle
    /\ rd = ReadIdle
    /\ PitIdle
    /\ panel = PanelIdle

\* One turn of the loop over resultsRaces
ResultsTurn ==
    /\ career.pc = "fold"
    /\ career.i <= Len(career.resultsRaces)
    /\ career' = [foldResult(career, career.resultsRaces[career.i])
                    EXCEPT !.i = @ + 1]
    /\ UNCHANGED exceptCareer

\* One turn of the loop over qualifyingRaces
QualifyingTurn ==
    /\ career.pc = "fold"
    /\ career.i > Len(career.resultsRaces)
    /\ career.j <= Len(career.qualifyingRaces)
    /\ career' = [foldQualifying(career, career.qualifyingRaces[career.j])
                    EXCEPT !.j = @ + 1]
    /\ UNCHANGED exceptCareer

\* The stats are built and returned
CareerReturn ==
    /\ career.pc = "fold"
    /\ career.i > Len(career.resultsRaces)
    /\ career.j > Len(career.qualifyingRaces)
    /\ career' = [pc |-> "done", resultsRaces |-> career.resultsRaces,
                  qualifyingRaces |-> career.qualifyingRaces,
                  stats |-> statsOf(career)]
    /\ UNCHANGED exceptCareer

NextCareer == ResultsTurn \/ QualifyingTurn \/ CareerReturn

SpecCareer == InitCareer /\ [][NextCareer]_vars

(***************************************************************************)
(* Claims about the career fold (SpecCareer).                              *)
(***************************************************************************)
\* The result entries of the races: race.Results[0] where there is one
Entries(races) == {n \in 1..Len(races) : races[n].has}

RECURSIVE SumOf(_)
SumOf(f) ==
    IF DOMAIN f = {} THEN 0
    ELSE LET n == CHOOSE m \in DOMAIN f : TRUE
         IN  f[n] + SumOf([m \in DOMAIN f \ {n} |-> f[m]])
SumOver(S, races, F(_)) == SumOf([n \in S |-> F(races[n])])

\* A position that is a parseable number: decimal digits
NumericPosition(race) == race.position \in NumericStrings
PositionOf(race) == Decimal(race.position)

\* sum / count over the entries with a numeric position, null without any
ExpectedAverage(races) ==
    LET numeric == {n \in Entries(races) : NumericPosition(races[n])}
    IN  IF numeric = {} THEN NoAverage
        ELSE [null |-> FALSE, sum |-> SumOver(numeric, races, PositionOf),
              count |-> Cardinality(numeric)]

SameAverage(a, b) ==
    /\ a.null = b.null
    /\ a.sum * b.count = b.sum * a.count

\* C15: avgFinish is the sum of the finishing positions over the number of
\* entries with a parseable numeric position, and null without such an
\* entry: an entry whose position is null, empty or text adds nothing to the
\* sum or to the denominator.  avgQualifying likewise.
C15_AverageOverNumericPositions ==
    career.pc = "done" =>
        /\ SameAverage(career.stats.avgFinish,
                       ExpectedAverage(career.resultsRaces))
        /\ SameAverage(career.stats.avgQualifying,
                       ExpectedAverage(career.qualifyingRaces))

PointsOf(race) == IF race.points \in NumericStrings THEN Decimal(race.points) ELSE 0

\* C16: wins is the number of result entries with position '1' and the
\* total of pointsBySeason is the sum of the points of all result entries.
C16_WinsAndTotalPoints ==
    career.pc = "done" =>
        /\ career.stats.wins =
              Cardinality({n \in Entries(career.resultsRaces) :
                              career.resultsRaces[n].position = "1"})
        /\ career.stats.totalPoints =
              SumOver(Entries(career.resultsRaces), career.resultsRaces, PointsOf)

\* (season, round) of an entry as integers; a race without a season or a
\* round ranks after every other
Before(s1, r1, s2, r2) == s1 < s2 \/ (s1 = s2 /\ r1 < r2)
NotAfter(s1, r1, s2, r2) == s1 < s2 \/ (s1 = s2 /\ r1 <= r2)

EntriesOf(cid) ==
    {n \in Entries(career.resultsRaces) : career.resultsRaces[n].cid = cid}

\* C17: in any order of the input races, each constructor row carries the
\* lexicographic minimum of (season, round), compared as integers, over
\* the entries of its constructor, and the rows are listed in
\* non-decreasing (firstSeason, firstRound) order.
C17_BreakdownIsChronological ==
    career.pc = "done" =>
        LET rows == career.stats.constructorBreakdown
            races == career.resultsRaces
        IN  /\ {rows[n].constructorId : n \in 1..Len(rows)}
                  = {races[n].cid : n \in Entries(races)}
            /\ \A n \in 1..Len(rows) :
                 /\ \E e \in EntriesOf(rows[n].constructorId) :
                      /\ rank(races[e].season) = rows[n].firstSeason
                      /\ rank(races[e].round) = rows[n].firstRound
                 /\ \A e \in EntriesOf(rows[n].constructorId) :
                      NotAfter(rows[n].firstSeason, rows[n].firstRound,
                               rank(races[e].season), rank(races[e].round))
            /\ \A n \in 1..Len(rows) - 1 :
                 NotAfter(rows[n].firstSeason, rows[n].firstRound,
                          rows[n + 1].firstSeason, rows[n + 1].firstRound)

\* Two constructors, the one met first in the input having started later,
\* and a constructor whose earliest entry (round 2, before round 10 of the
\* same season) comes last in the input
C17_Witness ==
    /\ career.pc = "done"
    /\ Len(career.stats.constructorBreakdown) = 2
    /\ Len(career.resultsRaces) = MaxRaces
    /\ career.resultsRaces[1].cid # career.stats.constructorBreakdown[1].constructorId
    /\ \E m, n \in EntriesOf(career.stats.constructorBreakdown[1].constructorId) :
         /\ m < n
         /\ career.resultsRaces[m].season = career.resultsRaces[n].season
         /\ career.resultsRaces[m].round = "10"
         /\ career.resultsRaces[n].round = "2"

(***************************************************************************)
(* Pitstops: durationToSeconds and the per-stop fold of loadPitstopStats   *)
(* (SpecStops).                                                            *)
(*                                                                         *)
(* A duration field is undefined or a string.  A string is kept as what    *)
(* the parser reads of it: whether white space surrounds it (pad) and its  *)
(* parts between ':' characters, each part one of Tokens.  Durations are   *)
(* whole seconds.                                                          *)
(***************************************************************************)
MaxParts == 3       \* parts of a duration string
MaxStops == 4       \* pit stops of the scanned range

Tokens == {"", "2", "10", "x", "7x"}

NoDuration == [given |-> FALSE, pad |-> FALSE, parts |-> <<>>]
Text(pad, parts) == [given |-> TRUE, pad |-> pad, parts |-> parts]

DurationInputs ==
    {NoDuration} \cup
    {Text(pad, parts) :
        pad \in BOOLEAN, parts \in UNION {[1..n -> Tokens] : n \in 1..MaxParts}}

\* The result of durationToSeconds: null or a number of seconds
NoSeconds == [null |-> TRUE, value |-> 0]
Seconds(n) == [null |-> FALSE, value |-> n]

durationToSeconds(duration) ==
    IF ~duration.given \/ (~duration.pad /\ duration.parts = <<"">>)
    THEN NoSeconds                                  \* !duration
    ELSE
    LET trimmed == duration.parts                   \* duration.trim()
        parts == [n \in DOMAIN trimmed |-> Number(trimmed[n])]
        asFloat == parseFloat(trimmed[1])           \* up to the first ':'
    IN  IF trimmed = <<"">> THEN NoSeconds          \* !trimmed
        ELSE IF Len(trimmed) >= 2 /\ \E n \in DOMAIN parts : ~parts[n].finite
        THEN NoSeconds
        ELSE IF Len(trimmed) = 2
        THEN Seconds(parts[1].value * 60 + parts[2].value)
        ELSE IF asFloat.finite THEN Seconds(asFloat.value) ELSE NoSeconds

\* A pit stop of the scan: its place in scan order stands for season,
\* round, lap and stop
NoStat == [set |-> FALSE, index |-> 0, driverId |-> "", durationSeconds |-> 0]
Stat(index, stop, durationSeconds) ==
    [set |-> TRUE, index |-> index, driverId |-> stop.driverId,
     durationSeconds |-> durationSeconds]

\* The tests of the fold; the first keeps a later stop of equal duration out
\* only with `<`
isFasterOrTied(durationSeconds, fastestLocal) ==
    ~fastestLocal.set \/ durationSeconds <= fastestLocal.durationSeconds

isFaster(durationSeconds, fastestLocal) ==
    ~fastestLocal.set \/ durationSeconds < fastestLocal.durationSeconds

isSlower(durationSeconds, slowestLocal) ==
    ~slowestLocal.set \/ durationSeconds > slowestLocal.durationSeconds

\* (record[key] ?? 0) + n
bump(record, key, n) ==
    [k \in DOMAIN record \cup {key} |->
        IF k = key THEN (IF k \in DOMAIN record THEN record[k] ELSE 0) + n
        ELSE record[k]]

\* The callback of raceStops.forEach on the stop at place n
foldStop(f, n) ==
    LET stop == f.stops[n]
        durationSeconds == durationToSeconds(stop.duration)
        seen == [f EXCEPT !.parsed = Append(@, durationSeconds)]
        stat == Stat(n, stop, durationSeconds.value)
    IN  IF durationSeconds.null THEN seen
        ELSE [seen EXCEPT
                !.fastestLocal = IF isFaster(durationSeconds.value, @) THEN stat ELSE @,
                !.slowestLocal = IF isSlower(durationSeconds.value, @) THEN stat ELSE @,
                !.created = IF stop.driverId \in DOMAIN f.stopsByDriver THEN @
                            ELSE Append(@, stop.driverId),
                !.stopsByDriver = bump(@, stop.driverId, 1),
                !.durationByDriver = bump(@, stop.driverId, durationSeconds.value)]

\* ranking: a row per driver in creation order, sorted by stops, most first;
\* avgSeconds is kept as its two terms
RECURSIVE insertRanked(_, _)
insertRanked(sorted, row) ==
    IF sorted = <<>> THEN <<row>>
    ELSE IF row.stops - sorted[1].stops > 0 THEN <<row>> \o sorted
    ELSE <<sorted[1]>> \o insertRanked(Tail(sorted), row)

RECURSIVE sortRanking(_)
sortRanking(rows) ==
    IF rows = <<>> THEN <<>>
    ELSE insertRanked(sortRanking(SubSeq(rows, 1, Len(rows) - 1)), rows[Len(rows)])

rankingOf(f) ==
    sortRanking([n \in 1..Len(f.created) |->
        [driverId |-> f.created[n],
         stops |-> f.stopsByDriver[f.created[n]],
         duration |-> f.durationByDriver[f.created[n]],
         over |-> Max(f.stopsByDriver[f.created[n]], 1)]])

\* The stops of the fold differ in driver and in duration ('2', '10', ':'
\* or none); a single stop has any duration
StopInputs ==
    {[driverId |-> d, duration |-> t] :
        d \in {"a", "b"},
        t \in {NoDuration, Text(FALSE, <<"2">>), Text(FALSE, <<"10">>),
               Text(FALSE, <<"", "">>)}}

NewFold(stops) ==
    [pc |-> "fold", stops |-> stops, n |-> 1, parsed |-> <<>>,
     fastestLocal |-> NoStat, slowestLocal |-> NoStat, created |-> <<>>,
     stopsByDriver |-> <<>>, durationByDriver |-> <<>>]

InitStops ==
    /\ \/ \E stops \in UpTo(StopInputs, MaxStops) : fold = NewFold(stops)
       \/ \E t \in DurationInputs :
            fold = NewFold(<<[driverId |-> "a", duration |-> t]>>)
    /\ career = CareerIdle
    /\ fx = FetchIdle
    /\ pg = PageIdle
    /\ SeasonIdle
    /\ CacheIdle
    /\ rd = ReadIdle
    /\ PitIdle
    /\ panel = PanelIdle

\* The next stop of the scan is folded
StopTurn ==
    /\ fold.pc = "fold"
    /\ fold.n <= Len(fold.stops)
    /\ fold' = [foldStop(fold, fold.n) EXCEPT !.n = @ + 1]
    /\ UNCHANGED exceptStops

\* After the loops: the error without a fastest and a slowest stop, the
\* results otherwise
shownAfter(f) ==
    IF ~f.fastestLocal.set \/ ~f.slowestLocal.set
    THEN [pc |-> "done", stops |-> f.stops, parsed |-> f.parsed,
          error |-> TRUE, fastest |-> NoStat, slowest |-> NoStat,
          driverRanking |-> <<>>]
    ELSE [pc |-> "done", stops |-> f.stops, parsed |-> f.parsed,
          error |-> FALSE, fastest |-> f.fastestLocal,
          slowest |-> f.slowestLocal, driverRanking |-> rankingOf(f)]

StopsReturn ==
    /\ fold.pc = "fold"
    /\ fold.n > Len(fold.stops)
    /\ fold' = shownAfter(fold)
    /\ UNCHANGED exceptStops

NextStops == StopTurn \/ StopsReturn

SpecStops == InitStops /\ [][NextStops]_vars

(***************************************************************************)
(* Claims about the pit-stop fold (SpecStops).                             *)
(***************************************************************************)
\* The two encodings of a duration: decimal digits, or decimal digits ':'
\* decimal digits
PlainSeconds(t) ==
    t.given /\ Len(t.parts) = 1 /\ t.parts[1] \in NumericStrings
MinutesSeconds(t) ==
    t.given /\ Len(t.parts) = 2 /\ \A n \in 1..2 : t.parts[n] \in NumericStrings
ExpectedSeconds(t) ==
    IF PlainSeconds(t) THEN Seconds(Decimal(t.parts[1]))
    ELSE IF MinutesSeconds(t)
    THEN Seconds(Decimal(t.parts[1]) * 60 + Decimal(t.parts[2]))
    ELSE NoSeconds

Parseable == {n \in 1..Len(fold.stops) : ~ExpectedSeconds(fold.stops[n].duration).null}
ParseableOf(d) == {n \in Parseable : fold.stops[n].driverId = d}

\* C18: a stop whose duration is missing or unparseable is neither the
\* fastest nor the slowest stop and is in no driver's stop count or duration
\* total.
C18_UnparseableStopIsExcluded ==
    fold.pc = "done" =>
        /\ fold.fastest.set => fold.fastest.index \in Parseable
        /\ fold.slowest.set => fold.slowest.index \in Parseable
        /\ \A r \in 1..Len(fold.driverRanking) :
             LET row == fold.driverRanking[r]
             IN  /\ row.stops = Cardinality(ParseableOf(row.driverId))
                 /\ row.duration =
                      SumOf([n \in ParseableOf(row.driverId) |->
                                ExpectedSeconds(fold.stops[n].duration).value])

\* C19: durationToSeconds gives minutes * 60 + seconds for 'minutes:seconds',
\* the value for plain seconds, and null for every other input.
C19_DurationToSeconds ==
    \A n \in 1..Len(fold.parsed) :
        fold.parsed[n] = ExpectedSeconds(fold.stops[n].duration)

\* The stops whose duration durationToSeconds parsed
Parsed == {n \in 1..Len(fold.parsed) : ~fold.parsed[n].null}
FirstWith(value) ==
    CHOOSE n \in Parsed :
        /\ fold.parsed[n].value = value
        /\ \A m \in Parsed : fold.parsed[m].value = value => n <= m

\* C20: the fastest stop is the first stop in scan order with the minimum
\* parsed duration and the slowest stop the first with the maximum.
C20_FirstSeenWinsTies ==
    (fold.pc = "done" /\ Parsed # {}) =>
        LET least == CHOOSE v \in {fold.parsed[n].value : n \in Parsed} :
                        \A n \in Parsed : v <= fold.parsed[n].value
            most == CHOOSE v \in {fold.parsed[n].value : n \in Parsed} :
                        \A n \in Parsed : v >= fold.parsed[n].value
        IN  /\ fold.fastest.set /\ fold.fastest.index = FirstWith(least)
            /\ fold.slowest.set /\ fold.slowest.index = FirstWith(most)

\* A later stop ties with the fastest, another with the slowest, and the
\* two durations differ
C20_Witness ==
    /\ fold.pc = "done"
    /\ fold.fastest.set
    /\ fold.fastest.durationSeconds < fold.slowest.durationSeconds
    /\ \E n \in Parsed : /\ n > fold.fastest.index
                         /\ fold.parsed[n].value = fold.fastest.durationSeconds
    /\ \E n \in Parsed : /\ n > fold.slowest.index
                         /\ fold.parsed[n].value = fold.slowest.durationSeconds

\* The whole fold of the stops in the given order, and what it shows: a
\* stop is told by its driver and its duration, not by its place in the order
RECURSIVE FoldFrom(_)
FoldFrom(f) ==
    IF f.n > Len(f.stops) THEN shownAfter(f)
    ELSE FoldFrom([foldStop(f, f.n) EXCEPT !.n = @ + 1])
Who(stat) == [stat EXCEPT !.index = 0]
Shown(r) == [error |-> r.error, fastest |-> Who(r.fastest),
             slowest |-> Who(r.slowest), driverRanking |-> r.driverRanking]
Orderings(stops) ==
    {[n \in 1..Len(stops) |-> stops[p[n]]] : p \in Permutations(1..Len(stops))}

\* C21: the pit-stop fold shows the same fastest stop, slowest stop and
\* driver ranking for every ordering of the same stops.
C21_FoldIgnoresInputOrder ==
    fold.pc = "done" =>
        \A o \in Orderings(fold.stops) :
            Shown(FoldFrom(NewFold(o))) = Shown(fold)

(***************************************************************************)
(* More claims about the season load (SpecSeasonSerial).                   *)
(***************************************************************************)
\* C22: when a load that follows a successful load of the same component
\* has failed, the standings and the race results loaded before are still
\* in the view state.
C22_FailedLoadKeepsEarlierData ==
    \A l \in 2..Len(loads) :
        ( /\ mounted
          /\ l = Len(loads)
          /\ loads[l].inst = loads[l - 1].inst
          /\ loads[l - 1].outcome \in {"complete", "hit"}
          /\ loads[l].pc = "done"
          /\ loads[l].outcome = "failed" )
        => (view.standings # 0 /\ view.seasonRaces # NoRaces)

(***************************************************************************)
(* A claim about the sweeps of the reconciliation loop (SpecLoop).         *)
(***************************************************************************)
\* The awaits of the loop at which a request for round idx is in flight
Requesting(l) == loads[l].pc \in {"simple", "fallback", "fallbackPage"}

\* C25: a sweep requests only rounds that lack results at that point; a
\* round that has results keeps its result list through every later step
\* of the loop, up to the cache entry written when the loop ends, and so
\* never returns to the missing set.
C25_SweepsTouchOnlyMissingRounds ==
    /\ [](\A l \in 1..Len(loads) :
            Requesting(l) => loads[l].current[loads[l].idx] = 0)
    /\ [][\A l \in 1..Len(loads) :
            \A r \in 1..Len(loads[l].current) :
                (InLoop(l) /\ loads[l].current[r] > 0) =>
                    /\ InLoop(l)' => loads'[l].current[r] = loads[l].current[r]
                    /\ (loads'[l].pc = "done") =>
                          /\ loads'[l].outcome = "complete"
                          /\ seasonCache'[loads[l].year].races[r]
                                = loads[l].current[r]
                    /\ (r \notin view.missingRounds
                          /\ view.seasonRaces.year = loads[l].year
                          /\ view'.seasonRaces.year = loads[l].year)
                          => r \notin view'.missingRounds]_vars

\* A sweep after the first requests a round, having passed over a round that
\* an earlier sweep of the loop filled
C25_Witness ==
    \E l \in 1..Len(loads) :
        /\ Requesting(l)
        /\ loads[l].sweeps >= 1
        /\ \E r \in loads[l].missing :
             r < loads[l].idx /\ loads[l].current[r] > 0

(***************************************************************************)
(* A claim about a failing paginated fetch (SpecPage).                     *)
(***************************************************************************)
\* C23: when a page request of a paginated fetch fails terminally, the
\* fetch fails as a whole: it returns no list, partial or not, and has
\* written no cache entry.
C23_FailedFetchLeavesNothing ==
    pg.pc = "thrown" => (~pg.value.given /\ ~pg.stored)

\* A fetch failed on a later page, with the pages before accumulated
C23_Witness ==
    /\ pg.pc = "thrown"
    /\ Len(pg.all) >= limit
    /\ pg.phase \in {"only", "qualifying"}

(***************************************************************************)
(* More claims about the resilient fetchers (SpecFetch).                   *)
(***************************************************************************)
\* A response that is not HTTP 429 and whose body says it was throttled
ThrottledBody(res) == res # NetworkFailure /\ res.status # 429 /\ res.marker

\* C24: a response that is not a 429 but whose body carries the throttling
\* text is treated as throttled by every fetcher: the call goes on to
\* another request, or fails when that response used up the last request,
\* and its body is never returned as data.
C24_ThrottlingBodyIsThrottled ==
    (Len(fx.responses) >= 1 /\ ThrottledBody(fx.responses[Len(fx.responses)])) =>
        /\ fx.pc # "returned"
        /\ fx.pc = "thrown" => Len(fx.responses) = RequestCeiling(fx.fn)

\* The base delay each fetcher is configured with
BaseDelayOf(fn) ==
    IF fn \in BackoffFetchers THEN baseDelay
    ELSE IF fn = "SeasonResults" THEN backoffMs ELSE BASE_RETRY_DELAY_MS

\* C26: against a target that always answers 429, the waits performed are
\* baseDelay * (k + 1) for the throttled attempts k that were followed by
\* another request, in order: once the failure is reported, one wait for
\* each retry and none after the last request.
C26_WaitsAreOnePerRetry ==
    AllThrottled =>
        fx.sleeps =
            [k \in 1..(Len(fx.responses) - (IF fx.pc = "thrown" THEN 1 ELSE 0)) |->
                BaseDelayOf(fx.fn) * k]

(***************************************************************************)
(* Claims about overlapping season loads (SpecSeason).                     *)
(***************************************************************************)
\* C27: whatever the order of year selections and load completions, the
\* standings, the race results with their fetched count and missing
\* rounds, and the round total held by a mounted view are those of the
\* selected year, or still reset.
C27_ViewIsOfSelectedYear ==
    mounted =>
        /\ view.standings \in {0, view.year}
        /\ view.seasonRaces.year \in {0, view.year}
        /\ view.racesTotal \in {0, RoundsIn(view.year)}
        /\ view.racesFetchedCount <= RoundsIn(view.year)

\* (loading || missingRounds.length > 0) with racesTotal truthy: the
\* progress message shows "fetched racesFetchedCount/racesTotal rounds"
ProgressExposed ==
    /\ mounted
    /\ view.loading \/ view.missingRounds # {}
    /\ view.racesTotal # 0

\* C28: whenever progress is exposed, the fetched count is at most the
\* round total.
C28_FetchedAtMostTotal ==
    ProgressExposed => view.racesFetchedCount <= view.racesTotal

(***************************************************************************)
(* SpecStats: the statistics effect of the driver, compare-drivers,        *)
(* constructor and track pages.  The panel holds the selected entity, the  *)
(* statistics state (whose statistics it holds), the error and loading     *)
(* flags and the runs of the effect's async function; for CompareDrivers   *)
(* it is side A, side B holding statistics.                                *)
(***************************************************************************)
MaxRuns == 3
StatsPages == {"DriverStats", "CompareDrivers", "ConstructorStats", "TrackStats"}
Entities == {"x", "y"}

\* How the awaited fetches of a run end: with statistics, by throwing, or
\* (fetchCircuitResults) with no race at all
Outcomes(page) ==
    {"value", "throw"} \cup (IF page = "TrackStats" THEN {"empty"} ELSE {})

\* return () => { cancelled = true }
cleanup(runs) ==
    IF runs = <<>> THEN runs
    ELSE [runs EXCEPT ![Len(runs)].cancelled = TRUE]

\* The branch of the effect for no selection
resetPanel(p) ==
    IF p.page = "DriverStats"
    THEN [p EXCEPT !.stats = NoStats, !.error = FALSE]
    ELSE [p EXCEPT !.stats = NoStats, !.last = NoStats, !.error = FALSE,
                   !.loading = FALSE]

\* if (!cancelled) ...
live(run) == ~run.cancelled

\* The state setters a completing run calls
settersOf(run, out) ==
    IF ~live(run) THEN {}
    ELSE (IF out = "throw" THEN {"error"} ELSE {"stats"}) \cup {"loading"}

\* try { ... setStats } catch { setError } finally { setLoading(false) }
completed(p, run, out) ==
    LET set == settersOf(run, out)
        p1 == IF "stats" \in set
              THEN [p EXCEPT !.stats = run.id,
                             !.last = IF p.page = "TrackStats" /\ out = "value"
                                      THEN run.id ELSE @]
              ELSE p
        p2 == IF "error" \in set THEN [p1 EXCEPT !.error = TRUE] ELSE p1
    IN  IF "loading" \in set THEN [p2 EXCEPT !.loading = FALSE] ELSE p2

\* The statistics the page renders
shownStats(p) ==
    IF p.page = "CompareDrivers"
    THEN IF p.selected # NoSelection THEN p.stats ELSE NoStats
    ELSE IF ~p.loading /\ ~p.error THEN p.stats ELSE NoStats

\* The last race the track page renders
shownLast(p) ==
    IF ~p.loading /\ ~p.error THEN p.last ELSE NoStats

InitStats ==
    /\ \E page \in StatsPages :
         panel = [PanelIdle EXCEPT !.page = page, !.mounted = TRUE]
    /\ fx = FetchIdle
    /\ pg = PageIdle
    /\ SeasonIdle
    /\ CacheIdle
    /\ rd = ReadIdle
    /\ PitIdle
    /\ FoldIdle

\* The selection changes: the cleanup of the effect runs, then the effect
\* for the new selection, up to its await.
SelectEntity(e) ==
    /\ panel.mounted
    /\ e # panel.selected
    /\ e # NoSelection => Len(panel.runs) < MaxRuns
    /\ LET p == [panel EXCEPT !.selected = e, !.runs = cleanup(@)]
       IN  panel' =
             IF e = NoSelection THEN resetPanel(p)
             ELSE [p EXCEPT !.loading = TRUE, !.error = FALSE,
                            !.runs = Append(@, [id |-> e, cancelled |-> FALSE,
                                                pc |-> "await"])]
    /\ UNCHANGED exceptStats

\* The page unmounts: the cleanup of the effect runs.
UnmountPanel ==
    /\ panel.mounted
    /\ panel' = [panel EXCEPT !.mounted = FALSE, !.runs = cleanup(@)]
    /\ UNCHANGED exceptStats

\* The awaited fetches of run i end.
CompleteRun(i, out) ==
    /\ panel.runs[i].pc = "await"
    /\ LET run == panel.runs[i]
           p == completed(panel, run, out)
       IN  panel' = [p EXCEPT !.runs[i].pc = "done",
                              !.late = IF run.cancelled
                                       THEN @ \cup settersOf(run, out) ELSE @]
    /\ UNCHANGED exceptStats

NextStats ==
    \/ \E e \in Entities \cup {NoSelection} : SelectEntity(e)
    \/ UnmountPanel
    \/ \E i \in 1..Len(panel.runs) : \E out \in Outcomes(panel.page) : CompleteRun(i, out)

SpecStats == InitStats /\ [][NextStats]_vars

\* C29: a statistics fetch whose selection has changed, or whose page has
\* unmounted, before it completes sets no state on completion, and so once
\* loading has ended the statistics and the last race a page shows are
\* those of the selected entity.
C29_StatsAreOfSelectedEntity ==
    /\ panel.late = {}
    /\ (panel.mounted /\ ~panel.loading) =>
          /\ shownStats(panel) \in {NoStats, panel.selected}
          /\ shownLast(panel) \in {NoStats, panel.selected}

(***************************************************************************)
(* SpecRange: the From and To selectors of the Pitstops page.  Only the    *)
(* range handlers run, each starting the scan of its range; no request of  *)
(* a scan is answered.                                                     *)
(***************************************************************************)
MaxChanges == 4

\* Values handed to handleFromChange and handleToChange
RangeInputs ==
    {0 - 1, 0, MIN_YEAR - 1, MIN_YEAR, MIN_YEAR + 1, MAX_YEAR - 1, MAX_YEAR,
     MAX_YEAR + 1}

FromSelected(value) == handleFromChange(MaxChanges + 1, value)
ToSelected(value) == handleToChange(MaxChanges + 1, value)

NextRange ==
    \/ \E value \in RangeInputs : FromSelected(value)
    \/ \E value \in RangeInputs : ToSelected(value)

SpecRange == InitPit /\ [][NextRange]_vars

\* C30: after any sequence of From and To changes, the range of the view
\* and of every scan started satisfies MIN_YEAR <= from <= to <= MAX_YEAR.
C30_RangeIsWithinSupportedYears ==
    /\ MIN_YEAR <= pitView.from /\ pitView.from <= pitView.to
    /\ pitView.to <= MAX_YEAR
    /\ \A k \in 1..Len(scans) :
         /\ MIN_YEAR <= scans[k].from /\ scans[k].from <= scans[k].to
         /\ scans[k].to <= MAX_YEAR

\* A To change below the From year pulled From down with it, after a From
\* change had raised it.
C30_Witness ==
    \E k \in 3..Len(scans) :
        /\ scans[k - 1].from > MIN_YEAR
        /\ scans[k].to < scans[k - 1].from
        /\ scans[k].from = scans[k].to

====
